---- MODULE Spec2Model ----
(***************************************************************************)
(* gollie: a typed client for the Mollie REST API.                         *)
(*                                                                         *)
(* The repository holds three revisions of the same design:                *)
(*   "first"  the single-file package (MethodService, PaymentService),     *)
(*   "v1"     the services package for the v1 protocol (error type string),*)
(*   "v2"     the services package for the v2 protocol (error status).     *)
(* A Go string is modelled as a sequence of tokens (one token is a         *)
(* character or a fixed word), so that formatting a path or a header is a  *)
(* concatenation that can be taken apart again.                            *)
(*                                                                         *)
(* Every service method is  build request -> sling Receive -> error        *)
(* precedence -> return.  The method blocks on the round trip: the action  *)
(* named after the method builds the request and puts it on the wire, and  *)
(* Complete is the rest of that same method once the round trip ended.     *)
(***************************************************************************)
EXTENDS Integers, Sequences, FiniteSets, TLC

VARIABLES
    rev,      \* the revision of the library the process was built from
    token,    \* the accessToken given to NewClient
    client,   \* the Client: field name -> the service's stored *sling.Sling
    services, \* services constructed directly, outside the Client
    pc,       \* "idle" | "sent" | "returned" | "panicked"
    call,     \* the service method being executed / last executed
    wire,     \* the HTTP requests in flight (sent, not yet answered)
    sent,     \* the HTTP requests the call being executed has issued so far
    exchange, \* how the last round trip ended: transport outcome, code, body
    recv,     \* what sling's Receive handed to the method in the last call
    ret,      \* the (payload, response, error) the last call returned
    store,    \* the remote service: the entities it holds, oldest first
    created,  \* the caller: the entities its Create calls returned
    thr       \* the threads that call the services at the same time

vars == <<rev, token, client, services, pc, call, wire, sent, exchange, recv, ret,
          store, created, thr>>

----------------------------------------------------------------------------
(* Strings *)

\* fmt.Sprintf("%s/%s/", a, b)
SprintfBase(a, b) == a \o <<"/">> \o b \o <<"/">>

\* fmt.Sprintf("Bearer %s", accessToken)
SprintfBearer(accessToken) == <<"Bearer", " ">> \o accessToken

\* variant: the id is left out of the path
Sprintf1NoId(coll, id) == <<coll, "/">>

\* fmt.Sprintf("payments/%s", id) and its siblings: a collection word, a
\* slash and the id
Sprintf1(coll, id) == <<coll, "/">> \o id

\* fmt.Sprintf("customers/%s/mandates", id)
Sprintf1Sub(coll, id, sub) == <<coll, "/">> \o id \o <<"/", sub>>

\* fmt.Sprintf("customers/%s/mandates/%s", id, subId)
Sprintf2(coll, id, sub, subId) == <<coll, "/">> \o id \o <<"/", sub, "/">> \o subId

----------------------------------------------------------------------------
(* Program constants *)

baseURL == <<"https://api.mollie.nl">>

\* const apiVersion = "v2" (services/common.go), "v1" in the older revisions
apiVersion(r) == IF r = "v2" THEN <<"v2">> ELSE <<"v1">>

userAgentValue == <<"Mollie/1.1.8 Go/1.4 OpenSSL/1.0.2d">>

\* the header keys as the source spells them
keyAuthorization == <<"a","u","t","h","o","r","i","z","a","t","i","o","n">>
keyUserAgent     == <<"u","s","e","r","-","a","g","e","n","t">>
keyUserUAgent    == <<"u","s","e","r","_","a","g","e","n","t">>

Revisions == {"first", "v1", "v2"}

Tokens == {<< >>, <<"T1">>}

----------------------------------------------------------------------------
(* Request types and their JSON encoding (encoding/json, as BodyJSON uses it) *)

\* a JSON value: null, a string, a number or an object (member name -> value)
JNull   == [t |-> "null", s |-> << >>, n |-> 0, m |-> << >>]
JStr(s) == [t |-> "str",  s |-> s,     n |-> 0, m |-> << >>]
JNum(n) == [t |-> "num",  s |-> << >>, n |-> n, m |-> << >>]
JObj(m) == [t |-> "obj",  s |-> << >>, n |-> 0, m |-> m]

Digits == <<"0", "1", "2", "3", "4", "5", "6", "7", "8", "9">>

\* strconv.FormatUint(n, 10)
RECURSIVE FormatUint(_)
FormatUint(n) ==
    IF n < 10 THEN <<Digits[n + 1]>>
    ELSE FormatUint(n \div 10) \o <<Digits[(n % 10) + 1]>>

\* decimal.Decimal is coef * 10^exp; the zero value is 0
ZeroDecimal == [coef |-> 0, exp |-> 0]

\* (Decimal).String(): the integer part, and the fraction with its trailing
\* zeros trimmed (and no point when nothing is left of the fraction)
DecimalString(d) ==
    LET RECURSIVE Pow10(_)
        Pow10(k) == IF k <= 0 THEN 1 ELSE 10 * Pow10(k - 1)
        RECURSIVE PadZeros(_, _)
        PadZeros(s, width) ==
            IF Len(s) >= width THEN s ELSE PadZeros(<<"0">> \o s, width)
        RECURSIVE TrimZeros(_)
        TrimZeros(s) ==
            IF s # << >> /\ s[Len(s)] = "0"
            THEN TrimZeros(SubSeq(s, 1, Len(s) - 1)) ELSE s
    IN  IF d.exp >= 0 THEN FormatUint(d.coef * Pow10(d.exp))
        ELSE LET scale == Pow10(-d.exp)
                 frac  == TrimZeros(PadZeros(FormatUint(d.coef % scale), -d.exp))
             IN  FormatUint(d.coef \div scale)
                     \o (IF frac = << >> THEN << >> ELSE <<".">> \o frac)

ZeroAmount  == [Currency |-> << >>, Value |-> << >>]
ZeroAddress == [StreetAndNumber |-> << >>, City |-> << >>]

\* the fields of a request type that the model follows: the Go name, the
\* name and the omitempty option of the json tag, the type of the field and
\* whether the field is a pointer to that type
Field(go, json, omitempty, kind, ptr) ==
    [go |-> go, json |-> json, omitempty |-> omitempty, kind |-> kind, ptr |-> ptr]

Fields(T) ==
    CASE T = "PaymentRequest" ->
           {Field("Amount", "amount", FALSE, "Amount", FALSE),
            Field("Description", "description", FALSE, "string", FALSE),
            Field("WebhookUrl", "webhookUrl", TRUE, "string", FALSE)}
      [] T = "PaymentRequestV1" ->
           {Field("Amount", "amount", TRUE, "decimal", FALSE),
            Field("Description", "description", TRUE, "string", FALSE)}
      [] T = "PaymentRefundRequest" ->
           {Field("Amount", "amount", TRUE, "decimal", FALSE),
            Field("Description", "description", TRUE, "string", FALSE)}
      [] T = "CustomerRequest" ->
           {Field("Name", "name", TRUE, "string", FALSE),
            Field("Email", "email", TRUE, "string", FALSE)}
      [] T = "SubscriptionRequest" ->
           {Field("Amount", "amount", TRUE, "decimal", FALSE),
            Field("Times", "times", TRUE, "int", FALSE),
            Field("Description", "description", TRUE, "string", FALSE)}
      [] T = "OrderRequest" ->
           {Field("Amount", "amount", FALSE, "Amount", FALSE),
            Field("OrderNumber", "orderNumber", FALSE, "string", FALSE),
            Field("ShippingAddress", "shippingAddress", TRUE, "Address", TRUE)}
      [] T = "OrderUpdateRequest" ->
           {Field("OrderNumber", "orderNumber", TRUE, "string", FALSE),
            Field("ShippingAddress", "shippingAddress", TRUE, "Address", TRUE)}
      [] T = "OrderLineRequest" ->
           {Field("Name", "name", TRUE, "string", FALSE),
            Field("Quantity", "quantity", TRUE, "int", TRUE),
            Field("UnitPrice", "unitPrice", TRUE, "Amount", TRUE)}
      [] T = "OrderPaymentRequest" -> {}
      [] T = "OrderRefundRequest" ->
           {Field("Description", "description", TRUE, "string", FALSE)}

\* the zero value of a field
Zero(f) ==
    IF f.ptr THEN << >>
    ELSE CASE f.kind = "string"  -> << >>
           [] f.kind = "int"     -> 0
           [] f.kind = "decimal" -> ZeroDecimal
           [] f.kind = "Amount"  -> ZeroAmount
           [] f.kind = "Address" -> ZeroAddress

\* encoding/json isEmptyValue: false, 0, a nil pointer, an empty string;
\* a struct is never empty
IsEmptyValue(f, x) ==
    IF f.ptr THEN x = << >>
    ELSE CASE f.kind = "string" -> x = << >>
           [] f.kind = "int"    -> x = 0
           [] OTHER             -> FALSE

\* json.Marshal of a value by its type; (Decimal).MarshalJSON writes the
\* quoted String()
MarshalKind(kind, x) ==
    CASE kind = "string"  -> JStr(x)
      [] kind = "int"     -> JNum(x)
      [] kind = "decimal" -> JStr(DecimalString(x))
      [] kind = "Amount"  ->
            JObj([k \in {"currency", "value"} |->
                     IF k = "currency" THEN JStr(x.Currency) ELSE JStr(x.Value)])
      [] kind = "Address" ->
            JObj([k \in {"streetAndNumber", "city"} |->
                     IF k = "city" THEN JStr(x.City) ELSE JStr(x.StreetAndNumber)])

MarshalField(f, x) ==
    IF f.ptr THEN (IF x = << >> THEN JNull ELSE MarshalKind(f.kind, x[1]))
             ELSE MarshalKind(f.kind, x)

\* variant: the omitempty option of the tags is not honoured
MarshalAllFields(v) ==
    JObj([name \in {f.json : f \in Fields(v.T)} |->
             LET f == CHOOSE f \in Fields(v.T) : f.json = name
             IN  MarshalField(f, v[f.go])])

\* json.Marshal of a request struct: a member for every field, except the
\* omitempty fields that hold an empty value
Marshal(v) ==
    JObj([name \in {f.json : f \in {g \in Fields(v.T) :
                                      ~(g.omitempty /\ IsEmptyValue(g, v[g.go]))}} |->
             LET f == CHOOSE f \in Fields(v.T) : f.json = name
             IN  MarshalField(f, v[f.go])])

\* json.Marshal of the value given to BodyJSON: a nil pointer is null
MarshalBody(p) == IF p = << >> THEN JNull ELSE Marshal(p[1])

----------------------------------------------------------------------------
(* The caller: what it means to set a field, and the requests it builds *)

Unset   == [set |-> FALSE, v |-> << >>]
SetTo(v) == [set |-> TRUE, v |-> <<v>>]

\* a struct literal: a field the caller leaves out has its zero value, a
\* field it writes has the given value (the address of it for a pointer
\* field)
Build(T, intent) ==
    [k \in {"T"} \cup {f.go : f \in Fields(T)} |->
        IF k = "T" THEN T
        ELSE LET f == CHOOSE g \in Fields(T) : g.go = k IN
             IF ~intent[k].set THEN Zero(f)
             ELSE IF f.ptr THEN intent[k].v ELSE intent[k].v[1]]

\* strings of the tests
Amount1050  == [Currency |-> <<"E", "U", "R">>,
                Value |-> <<"1", "0", ".", "5", "0">>]
\* decimal.NewFromString("10.50")
Decimal1050 == [coef |-> 1050, exp |-> -2]
RedBucket   == <<"A red bucket">>
Riverview   == [StreetAndNumber |-> <<"1 Riverview">>, City |-> <<"Riverville">>]
Lakeside    == [StreetAndNumber |-> <<"1 Riverview">>, City |-> <<"Lakeside">>]

\* what a caller may intend with each field of a request: leave it out, set
\* it to the empty value of its type, or set it to a value
Intents(T) ==
    CASE T = "PaymentRequest" ->
           [Amount : {SetTo(Amount1050)},
            Description : {Unset, SetTo(<< >>), SetTo(RedBucket)},
            WebhookUrl : {Unset}]
      [] T = "PaymentRequestV1" ->
           [Amount : {Unset, SetTo(Decimal1050)},
            Description : {SetTo(RedBucket)}]
      [] T = "PaymentRefundRequest" ->
           [Amount : {Unset, SetTo(Decimal1050)},
            Description : {Unset}]
      [] T = "CustomerRequest" ->
           [Name : {Unset, SetTo(<< >>), SetTo(<<"Brian">>)},
            Email : {Unset}]
      [] T = "SubscriptionRequest" ->
           [Amount : {SetTo(Decimal1050)},
            Times : {Unset, SetTo(0), SetTo(1)},
            Description : {SetTo(RedBucket)}]
      [] T = "OrderRequest" ->
           [Amount : {SetTo(Amount1050)},
            OrderNumber : {Unset, SetTo(<<"12345abcde">>)},
            ShippingAddress : {SetTo(Riverview)}]
      [] T = "OrderUpdateRequest" ->
           [OrderNumber : {Unset, SetTo(<< >>), SetTo(<<"abcde12345">>)},
            ShippingAddress : {Unset, SetTo(Lakeside)}]
      [] T = "OrderLineRequest" ->
           [Name : {Unset, SetTo(<< >>), SetTo(<<"New line name">>)},
            Quantity : {Unset, SetTo(0)},
            UnitPrice : {Unset}]
      [] T = "OrderPaymentRequest" -> {[k \in {} |-> Unset]}
      [] T = "OrderRefundRequest" ->
           [Description : {Unset, SetTo(<<"damaged">>)}]

\* the request values of a Go type that callers pass
Requests(T) == {Build(T, i) : i \in Intents(T)}

\* a pointer argument: nil or the address of a value
PtrTo(S) == {<< >>} \cup {<<v>> : v \in S}

\* the PaymentRequest type of the package a revision is built from
PaymentRequestOf(r) == IF r = "v2" THEN "PaymentRequest" ELSE "PaymentRequestV1"

----------------------------------------------------------------------------
(* The request builder (github.com/dghubble/sling) as the services use it *)

\* http.Header.Set stores the key in canonical form: the first letter and
\* every letter after a hyphen in upper case, the others in lower case.
\* The underscore is a legal key character and is not a separator.
CanonicalKey(k) ==
    LET UpperOf == [c \in {"a","u","t","h","o","r","i","z","n","s","e","g"} |->
                      CASE c = "a" -> "A" [] c = "u" -> "U" [] c = "t" -> "T"
                        [] c = "h" -> "H" [] c = "o" -> "O" [] c = "r" -> "R"
                        [] c = "i" -> "I" [] c = "z" -> "Z" [] c = "n" -> "N"
                        [] c = "s" -> "S" [] c = "e" -> "E" [] c = "g" -> "G"]
        ToUpper(c) == IF c \in DOMAIN UpperOf THEN UpperOf[c] ELSE c
        ToLower(c) == IF \E l \in DOMAIN UpperOf : UpperOf[l] = c
                      THEN CHOOSE l \in DOMAIN UpperOf : UpperOf[l] = c
                      ELSE c
    IN  [i \in 1..Len(k) |-> IF i = 1 \/ k[i-1] = "-" THEN ToUpper(k[i])
                                                      ELSE ToLower(k[i])]

\* sling.New(): GET, no URL, empty header, no query struct, no body
slingNew == [method |-> "GET", rawURL |-> << >>, header |-> [k \in {} |-> << >>],
             queryStructs |-> << >>, body |-> << >>]

\* (*Sling).Base
Base(s, rawURL) == [s EXCEPT !.rawURL = rawURL]

\* (*Sling).Set
Set(s, key, value) ==
    [s EXCEPT !.header =
        [k \in DOMAIN s.header \cup {CanonicalKey(key)} |->
            IF k = CanonicalKey(key) THEN value ELSE s.header[k]]]

\* (*Sling).New(): a child builder with a copy of the parent's properties
New(s) == s

\* (*Sling).Path: the path is resolved against the base URL, which ends in
\* a slash
Path(s, path) == [s EXCEPT !.rawURL = s.rawURL \o path]

Get(s, path)    == Path([s EXCEPT !.method = "GET"], path)
Post(s, path)   == Path([s EXCEPT !.method = "POST"], path)
\* variant: the update goes out as a POST
PatchAsPost(s, path) == Path([s EXCEPT !.method = "POST"], path)
Patch(s, path)  == Path([s EXCEPT !.method = "PATCH"], path)
\* variant: the cancellation goes out as a GET
DeleteAsGet(s, path) == Path([s EXCEPT !.method = "GET"], path)
Delete(s, path) == Path([s EXCEPT !.method = "DELETE"], path)

\* variant: the params are not attached to the request
QueryStructDropped(s, params) == s

\* (*Sling).QueryStruct appends the struct. A pointer is << >> (nil) or
\* <<v>>; a nil *ListParams is still a non-nil interface value and is
\* appended like any other.
QueryStruct(s, params) == [s EXCEPT !.queryStructs = Append(@, params)]

\* (*Sling).BodyJSON sets the body and the Content-Type header. The value
\* is a pointer (<< >> or <<v>>); a struct passed by value is the boxed <<v>>.
BodyJSON(s, body) ==
    [Set(s, <<"Content-Type">>, <<"application/json">>) EXCEPT !.body = <<body>>]

\* the index of the first token tok of a string, 0 when there is none
IndexOf(str, tok) ==
    IF \E i \in DOMAIN str : str[i] = tok
    THEN CHOOSE i \in DOMAIN str : str[i] = tok /\ \A j \in 1..(i - 1) : str[j] # tok
    ELSE 0

\* url.Values: key -> the values given for the key
NoValues == [k \in {} |-> << >>]

\* (url.Values).Add
Add(values, key, value) ==
    [k \in DOMAIN values \cup {key} |->
        IF k # key THEN values[k]
        ELSE IF key \in DOMAIN values THEN Append(values[key], value) ELSE <<value>>]

\* url.ParseQuery: the pairs key=value, separated by "&"
RECURSIVE ParseQuery(_)
ParseQuery(raw) ==
    IF raw = << >> THEN NoValues
    ELSE LET amp  == IndexOf(raw, "&")
             pair == IF amp = 0 THEN raw ELSE SubSeq(raw, 1, amp - 1)
             rest == IF amp = 0 THEN << >> ELSE SubSeq(raw, amp + 1, Len(raw))
             eq   == IndexOf(pair, "=")
         IN  IF pair = << >> THEN ParseQuery(rest)
             ELSE IF eq = 0 THEN Add(ParseQuery(rest), pair, << >>)
             ELSE Add(ParseQuery(rest), SubSeq(pair, 1, eq - 1),
                      SubSeq(pair, eq + 1, Len(pair)))

\* variant: a nil field is sent with the zero value of its type
ValuesNoOmitEmpty(queryStruct) ==
    IF queryStruct = << >> THEN NoValues
    ELSE LET p == queryStruct[1] IN
         IF "From" \in DOMAIN p
         THEN [k \in {<<"from">>, <<"limit">>} |->
                 IF k = <<"from">>
                 THEN << IF p.From = << >> THEN << >> ELSE p.From[1] >>
                 ELSE << FormatUint(IF p.Limit = << >> THEN 0 ELSE p.Limit[1]) >>]
         ELSE [k \in {<<"offset">>, <<"count">>} |->
                 IF k = <<"offset">> THEN <<FormatUint(p.Offset)>>
                                     ELSE <<FormatUint(p.Count)>>]

\* query.Values (github.com/google/go-querystring) of a *ListParams: a nil
\* pointer has no values; a field tagged omitempty is left out when it is
\* empty (a nil pointer, the number 0), and a pointer field that is not nil
\* is sent with the value it points to
Values(queryStruct) ==
    IF queryStruct = << >> THEN NoValues
    ELSE LET p == queryStruct[1] IN
         IF "From" \in DOMAIN p
         THEN [k \in (IF p.From # << >> THEN {<<"from">>} ELSE {})
                     \cup (IF p.Limit # << >> THEN {<<"limit">>} ELSE {}) |->
                 IF k = <<"from">> THEN <<p.From[1]>> ELSE <<FormatUint(p.Limit[1])>>]
         ELSE [k \in (IF p.Offset # 0 THEN {<<"offset">>} ELSE {})
                     \cup (IF p.Count # 0 THEN {<<"count">>} ELSE {}) |->
                 IF k = <<"offset">> THEN <<FormatUint(p.Offset)>>
                                     ELSE <<FormatUint(p.Count)>>]

\* sling's addQueryStructs: the values of the URL's own query, with the
\* values of every query struct added
RECURSIVE AddQueryStructs(_, _)
AddQueryStructs(values, queryStructs) ==
    LET RECURSIVE AddAll(_, _, _)
        AddAll(vs, more, keys) ==
            IF keys = {} THEN vs
            ELSE LET k == CHOOSE k \in keys : TRUE IN
                 AddAll(Add(vs, k, more[k][1]), more, keys \ {k})
    IN  IF queryStructs = << >> THEN values
        ELSE AddQueryStructs(
                 AddAll(values, Values(Head(queryStructs)),
                        DOMAIN Values(Head(queryStructs))),
                 Tail(queryStructs))

\* (*Sling).Request: the http.Request built from the properties; url.Parse
\* takes the part of the URL before the first "?" for the path and the part
\* after it for the query
Request(s) ==
    LET q        == IndexOf(s.rawURL, "?")
        URLPath  == IF q = 0 THEN s.rawURL ELSE SubSeq(s.rawURL, 1, q - 1)
        RawQuery == IF q = 0 THEN << >> ELSE SubSeq(s.rawURL, q + 1, Len(s.rawURL))
    IN  [method |-> s.method, url |-> URLPath, header |-> s.header,
         query  |-> AddQueryStructs(ParseQuery(RawQuery), s.queryStructs),
         body   |-> IF s.body = << >> THEN << >> ELSE <<MarshalBody(s.body[1])>>]

\* variant: the request goes out twice
DoTwice(log, req) == Append(Append(log, req), req)

\* (*Sling).Receive hands the request to the http client once
Do(log, req) == Append(log, req)

\* net/http writes its own User-Agent when the request header has none
OnWire(req) ==
    IF CanonicalKey(keyUserAgent) \in DOMAIN req.header THEN req
    ELSE [req EXCEPT !.header =
            [k \in DOMAIN req.header \cup {CanonicalKey(keyUserAgent)} |->
                IF k \in DOMAIN req.header THEN req.header[k]
                ELSE <<"Go-http-client/1.1">>]]

----------------------------------------------------------------------------
(* Transport factory and constructors *)

\* variant: an empty token is refused and the builder is left unconfigured
NewClientValidating(accessToken, r) ==
    IF accessToken = << >> THEN slingNew
    ELSE Set(Set(Base(slingNew, SprintfBase(baseURL, apiVersion(r))),
                 keyAuthorization, SprintfBearer(accessToken)),
             keyUserAgent, userAgentValue)

\* services.NewClient
NewClient(accessToken, r) ==
    Set(Set(Base(slingNew, SprintfBase(baseURL, apiVersion(r))),
            keyAuthorization, SprintfBearer(accessToken)),
        keyUserAgent, userAgentValue)

\* first revision: NewMethodService builds its own sling
FirstNewMethodService(accessToken) ==
    Set(Set(Base(slingNew, SprintfBase(baseURL, apiVersion("first"))),
            keyAuthorization, SprintfBearer(accessToken)),
        keyUserAgent, userAgentValue)

\* first revision: NewPaymentService sets "user_agent"
FirstNewPaymentService(accessToken) ==
    Set(Set(Base(slingNew, SprintfBase(baseURL, apiVersion("first"))),
            keyAuthorization, SprintfBearer(accessToken)),
        keyUserUAgent, userAgentValue)

\* every later constructor: NewXService(accessToken) = &XService{sling: NewClient(accessToken)}
NewService(accessToken, r) == NewClient(accessToken, r)

\* the fields of the Client struct of each revision
ClientFields(r) ==
    CASE r = "first" -> {"MethodService", "PaymentService"}
      [] r = "v1"    -> {"MethodService", "PaymentService", "CustomerService",
                         "SubscriptionService"}
      [] r = "v2"    -> {"MethodService", "PaymentService", "CustomerService",
                         "MandateService", "SubscriptionService", "OrderService"}

\* gollie.NewClient
GollieNewClient(accessToken, r) ==
    [f \in ClientFields(r) |->
        IF r = "first"
        THEN IF f = "MethodService" THEN FirstNewMethodService(accessToken)
                                    ELSE FirstNewPaymentService(accessToken)
        ELSE NewService(accessToken, r)]

\* services that exist in a revision but are no field of its Client
Standalone(r) == IF r = "v2" THEN {"ChargebackService"} ELSE {}

Service(name) == IF name \in DOMAIN client THEN client[name] ELSE services[name]

----------------------------------------------------------------------------
(* Values handed back by a call *)

\* *http.Response: nil, or a response with its status code
NoResponse    == [nil |-> TRUE,  StatusCode |-> 0]
Response(c)   == [nil |-> FALSE, StatusCode |-> c]

\* MollieError: Status/Title of the v2 type (services/common.go), Err.Type of
\* the v1 type; new(MollieError) is the zero value
ZeroMollieError == [Status |-> 0, Title |-> "", Type |-> ""]

\* error values: nil, an error of the transport, an error of the JSON
\* decoder, or the *MollieError of the call
NilErr       == [kind |-> "nil",       e |-> ZeroMollieError]
TransportErr == [kind |-> "transport", e |-> ZeroMollieError]
DecodeErr    == [kind |-> "decode",    e |-> ZeroMollieError]
MollieErr(m) == [kind |-> "mollie",    e |-> m]

\* the success target: an entity (Payment, Order, ...) or a list of them;
\* new(T) is the zero value. An amount is an Amount struct or a
\* decimal.Decimal, by the type of the entity.
ZeroPayload == [ID |-> << >>, Status |-> "", Count |-> 0, Data |-> << >>,
                Amount |-> ZeroAmount, Decimal |-> ZeroDecimal,
                Description |-> << >>, OrderNumber |-> << >>,
                ShippingAddress |-> << >>]

\* the fields of a success type that the model follows: for a list type the
\* member its entities are read from ("data", or the name under
\* "_embedded"); for an entity type the type of its amount and whether it
\* has a status, a description, an order number and a shipping address
SuccessType(T) ==
    LET ListType(items) ==
            [list |-> TRUE, items |-> items, status |-> FALSE, amount |-> "none",
             description |-> FALSE, order |-> FALSE]
        EntityType(status, amount, description, order) ==
            [list |-> FALSE, items |-> "", status |-> status, amount |-> amount,
             description |-> description, order |-> order]
    IN
    CASE T \in {"MethodList", "PaymentList", "CustomerList", "MandateList",
                "SubscriptionList", "PaymentRefundList", "PaymentChargebackList",
                "ChargebackList"}       -> ListType("data")
      [] T = "OrderList"                -> ListType("orders")
      [] T = "OrderRefundList"          -> ListType("refunds")
      [] T = "Payment"                  -> EntityType(TRUE, "Amount", TRUE, FALSE)
      [] T = "Order"                    -> EntityType(TRUE, "Amount", FALSE, TRUE)
      [] T = "Chargeback"               -> EntityType(FALSE, "Amount", FALSE, FALSE)
      [] T = "Customer"                 -> EntityType(FALSE, "none", FALSE, FALSE)
      [] T = "Mandate"                  -> EntityType(TRUE, "none", FALSE, FALSE)
      [] T \in {"PaymentV1", "CustomerPayment", "Subscription"}
                                        -> EntityType(TRUE, "decimal", TRUE, FALSE)
      [] T \in {"PaymentRefund", "OrderRefund"}
                                        -> EntityType(TRUE, "decimal", FALSE, FALSE)
      [] T = "PaymentChargeback"        -> EntityType(FALSE, "decimal", FALSE, FALSE)

----------------------------------------------------------------------------
(* The round trip: what the server may answer and what Receive makes of it *)

HttpCodes == {200, 201, 204, 300, 422}

\* the largest number of entities in the list of a response body
MaxCount == 2

\* the JSON "status" member: absent, a string (an entity) or a number (an
\* error envelope)
StatusMembers == {[t |-> "none", s |-> "", n |-> 0],
                  [t |-> "str",  s |-> "open", n |-> 0],
                  [t |-> "num",  s |-> "", n |-> 200],
                  [t |-> "num",  s |-> "", n |-> 300],
                  [t |-> "num",  s |-> "", n |-> 422]}

\* a JSON object with none of the members the model follows. The "amount"
\* member is absent (t = "none"), an object {currency, value} or a string;
\* the "_embedded" member has the name of the one array in it and the ids
\* of the entities of that array; next tells whether "_links" has a "next"
\* link, the address of the page after this one.
EmptyObject ==
    [json |-> TRUE, id |-> << >>, status |-> [t |-> "none", s |-> "", n |-> 0],
     title |-> "none", etype |-> "", count |-> 0, data |-> << >>,
     embedded |-> [name |-> "", items |-> << >>], next |-> FALSE,
     amount |-> [t |-> "none", currency |-> << >>, value |-> << >>],
     description |-> << >>, orderNumber |-> << >>, shipping |-> << >>]

\* a response body that is not JSON at all
Malformed == [EmptyObject EXCEPT !.json = FALSE]

\* the bodies of a server about which nothing is assumed: an error envelope
\* of the v2 or of the v1 protocol, an entity, or a list
Bodies ==
    LET Envelopes == {[EmptyObject EXCEPT !.status = s, !.title = ti] :
                          s \in StatusMembers, ti \in {"str", "num"}}
                     \cup {[EmptyObject EXCEPT !.etype = "request", !.title = "str"]}
        Entities  == {[EmptyObject EXCEPT !.id = i, !.status = s] :
                          i \in {<< >>, <<"id_1">>},
                          s \in {st \in StatusMembers : st.n < 300}}
        Lists     == {[EmptyObject EXCEPT !.count = c, !.next = n,
                          !.data = [i \in 1..c |-> <<"id_1">>],
                          !.embedded = [name |-> "orders",
                                        items |-> [i \in 1..c |-> <<"id_1">>]]] :
                          c \in 0..MaxCount, n \in BOOLEAN}
    IN  {Malformed} \cup Envelopes \cup Entities \cup Lists

\* what happens to the request: no response at all, a response together
\* with a transport error (a refused redirect), or a completed exchange
Outcomes == {[transport |-> "noresp", code |-> 0, body |-> Malformed]}
            \cup [transport : {"errresp"}, code : HttpCodes, body : {Malformed}]
            \cup [transport : {"ok"}, code : HttpCodes, body : Bodies]

\* the number a string of digits stands for
RECURSIVE ParseUint(_)
ParseUint(s) ==
    IF s = << >> THEN 0
    ELSE 10 * ParseUint(SubSeq(s, 1, Len(s) - 1))
         + (CHOOSE n \in 0..9 : Digits[n + 1] = s[Len(s)])

\* decimal.NewFromString: the digits without the point, and the number of
\* digits after the point as the negative exponent
NewFromString(s) ==
    LET dot == IndexOf(s, ".") IN
    IF dot = 0 THEN [coef |-> ParseUint(s), exp |-> 0]
    ELSE [coef |-> ParseUint(SubSeq(s, 1, dot - 1) \o SubSeq(s, dot + 1, Len(s))),
          exp  |-> -(Len(s) - dot)]

\* the amount member decoded into an Amount struct: an object fills it; a
\* string is of the wrong JSON type and leaves it untouched
DecodeAmount(m) ==
    CASE m.t = "obj"  -> [v |-> [Currency |-> m.currency, Value |-> m.value], ok |-> TRUE]
      [] m.t = "str"  -> [v |-> ZeroAmount, ok |-> FALSE]
      [] m.t = "none" -> [v |-> ZeroAmount, ok |-> TRUE]

\* (*Decimal).UnmarshalJSON: a number, quoted or not; anything else is an
\* error
DecodeDecimal(m) ==
    CASE m.t = "str"  -> IF /\ m.value # << >>
                            /\ \A i \in DOMAIN m.value :
                                  \/ m.value[i] = "."
                                  \/ \E n \in 0..9 : Digits[n + 1] = m.value[i]
                         THEN [v |-> NewFromString(m.value), ok |-> TRUE]
                         ELSE [v |-> ZeroDecimal, ok |-> FALSE]
      [] m.t = "obj"  -> [v |-> ZeroDecimal, ok |-> FALSE]
      [] m.t = "none" -> [v |-> ZeroDecimal, ok |-> TRUE]

\* variant: the page the "next" link names is fetched and added
ItemsFollowingNext(items, b) ==
    LET page == IF items = "data" THEN b.data
                ELSE IF b.embedded.name = items THEN b.embedded.items ELSE << >>
    IN  IF b.next THEN page \o page ELSE page

\* the entities a list type takes from a body: those of the member its tag
\* names ("data", or the array of that name under "_embedded"); the links
\* of the body are stored and not looked at
Items(items, b) ==
    IF items = "data" THEN b.data
    ELSE IF b.embedded.name = items THEN b.embedded.items ELSE << >>

\* json decoding into the success target of type T. A member of the wrong
\* JSON type leaves its field untouched and makes the decoder report an
\* error after the other members have been stored; an error of the
\* decimal's own UnmarshalJSON ends the decoding, with the members before it
\* (the id) stored.
DecodeSuccess(T, b) ==
    LET ty == SuccessType(T) IN
    IF ~b.json THEN [v |-> ZeroPayload, err |-> DecodeErr]
    ELSE IF ty.list
    THEN [v   |-> [ZeroPayload EXCEPT !.Count = b.count, !.Data = Items(ty.items, b)],
          err |-> NilErr]
    ELSE IF ty.amount = "decimal" /\ ~DecodeDecimal(b.amount).ok
    THEN [v |-> [ZeroPayload EXCEPT !.ID = b.id], err |-> DecodeErr]
    ELSE [v   |-> [ZeroPayload EXCEPT
                       !.ID = b.id,
                       !.Status = IF ty.status /\ b.status.t = "str"
                                  THEN b.status.s ELSE "",
                       !.Amount = IF ty.amount = "Amount"
                                  THEN DecodeAmount(b.amount).v ELSE ZeroAmount,
                       !.Decimal = IF ty.amount = "decimal"
                                   THEN DecodeDecimal(b.amount).v ELSE ZeroDecimal,
                       !.Description = IF ty.description THEN b.description ELSE << >>,
                       !.OrderNumber = IF ty.order THEN b.orderNumber ELSE << >>,
                       !.ShippingAddress = IF ty.order THEN b.shipping ELSE << >>],
          err |-> IF \/ ty.status /\ b.status.t = "num"
                     \/ ty.amount = "Amount" /\ ~DecodeAmount(b.amount).ok
                  THEN DecodeErr ELSE NilErr]

\* json decoding into the error target: the v2 MollieError reads "status"
\* and "title", the v1 MollieError reads "error.type", the first revision's
\* reads neither
DecodeFailure(errShape, b) ==
    IF ~b.json THEN [v |-> ZeroMollieError, err |-> DecodeErr]
    ELSE IF errShape = "v2"
    THEN [v   |-> [ZeroMollieError EXCEPT
                       !.Status = IF b.status.t = "num" THEN b.status.n ELSE 0,
                       !.Title  = IF b.title = "str" THEN "title" ELSE ""],
          err |-> IF b.status.t = "str" \/ b.title = "num" THEN DecodeErr ELSE NilErr]
    ELSE IF errShape = "v1"
    THEN [v |-> [ZeroMollieError EXCEPT !.Type = b.etype], err |-> NilErr]
    ELSE [v |-> ZeroMollieError, err |-> NilErr]

\* (*Sling).Receive(successV, failureV): one round trip; a 204 is not
\* decoded, a 2xx body is decoded into successV only, any other body into
\* failureV only. shape is the type of successV.
Receive(o, shape, errShape) ==
    IF o.transport = "noresp"
    THEN [resp |-> NoResponse, err |-> TransportErr,
          success |-> ZeroPayload, failure |-> ZeroMollieError]
    ELSE IF o.transport = "errresp"
    THEN [resp |-> Response(o.code), err |-> TransportErr,
          success |-> ZeroPayload, failure |-> ZeroMollieError]
    ELSE IF o.code = 204
    THEN [resp |-> Response(o.code), err |-> NilErr,
          success |-> ZeroPayload, failure |-> ZeroMollieError]
    ELSE IF 200 <= o.code /\ o.code <= 299
    THEN [resp |-> Response(o.code), err |-> DecodeSuccess(shape, o.body).err,
          success |-> DecodeSuccess(shape, o.body).v, failure |-> ZeroMollieError]
    ELSE [resp |-> Response(o.code), err |-> DecodeFailure(errShape, o.body).err,
          success |-> ZeroPayload, failure |-> DecodeFailure(errShape, o.body).v]

----------------------------------------------------------------------------
(* Error precedence, as each revision writes it *)

\* variant: the bound 300 itself is not taken for an error
StatusCheckAbove300(err, mollieError) ==
    IF err = NilErr /\ mollieError.Status > 300 THEN MollieErr(mollieError) ELSE err

\* variant: the guard err == nil is missing
StatusCheckUnguarded(err, mollieError) ==
    IF mollieError.Status >= 300 THEN MollieErr(mollieError) ELSE err

\* v2:  if err == nil && mollieError.Status >= 300 { err = mollieError }
StatusCheck(err, mollieError) ==
    IF err = NilErr /\ mollieError.Status >= 300 THEN MollieErr(mollieError) ELSE err

\* v1:  if err == nil && mollieError.Err.Type != "" { err = mollieError }
TypeCheck(err, mollieError) ==
    IF err = NilErr /\ mollieError.Type # "" THEN MollieErr(mollieError) ELSE err

\* first revision:  if err == nil { err = mollieError }
FirstCheck(err, mollieError) ==
    IF err = NilErr THEN MollieErr(mollieError) ELSE err

\* variant: the decoded error is looked at before the error of Receive
ErrorPrecedenceDomainFirst(check, err, mollieError) ==
    CASE check = "status" -> StatusCheckUnguarded(err, mollieError)
      [] check = "type"   -> IF mollieError.Type # "" THEN MollieErr(mollieError) ELSE err
      [] check = "first"  -> MollieErr(mollieError)

ErrorPrecedence(check, err, mollieError) ==
    CASE check = "status" -> StatusCheck(err, mollieError)
      [] check = "type"   -> TypeCheck(err, mollieError)
      [] check = "first"  -> FirstCheck(err, mollieError)

\* variant: the response is withheld when the call failed
ReturnNoRespOnError(payload, resp, err) ==
    [payload |-> payload, resp |-> IF err = NilErr THEN resp ELSE NoResponse,
     err |-> err]

\* return *payload, resp, err
Return(payload, resp, err) == [payload |-> payload, resp |-> resp, err |-> err]

NoExchange == [transport |-> "none", code |-> 0, body |-> Malformed]
NoRecv == [resp |-> NoResponse, err |-> NilErr,
           success |-> ZeroPayload, failure |-> ZeroMollieError]
NoRet  == Return(ZeroPayload, NoResponse, NilErr)

\* the arguments of a call; an argument the method does not have is << >>
Args(id, subId, params, body, embed) ==
    [id |-> id, subId |-> subId, params |-> params, body |-> body, embed |-> embed]

NoCall == [svc |-> "", op |-> "", args |-> Args(<< >>, << >>, << >>, << >>, << >>), shape |-> "", errShape |-> "",
           check |-> "", deref |-> FALSE]

----------------------------------------------------------------------------
(* Arguments of the calls *)

\* the ids the callers pass: the empty string, the id of an entity and a
\* string with a slash in it
Ids == {<< >>, <<"id_1">>, <<"id_1", "/", "refunds">>}

\* ListParams: {From *string, Limit *uint16} in v2, {Offset int, Count int}
\* before
ListParamsV2 == [From : PtrTo({<< >>, <<"id_1">>}), Limit : PtrTo({0, 1, 10})]
ListParamsV1 == [Offset : {0, 1}, Count : {0, 2}]

ParamsPtr(r) ==
    {<< >>} \cup {<<p>> : p \in IF r = "v2" THEN ListParamsV2 ELSE ListParamsV1}

\* embed *string: nil, the string of the test, and a string with the
\* separator of query parameters in it
EmbedPtr == {<< >>, << <<"payments">> >>, << <<"payments", "&", "refunds">> >>}

\* OrderService.Fetch: path = Sprintf("%s?embed=%s", path, *embed) when
\* embed != nil
EmbedPath(path, embed) ==
    IF embed # << >> THEN path \o <<"?", "embed", "=">> \o embed[1] ELSE path

----------------------------------------------------------------------------
(* The remote service, as the tests of the library expect it to behave *)

\* the largest number of entities the service holds
MaxEntities == 2

\* the ids the service assigns, by the order of creation in a collection
EntityIds == <<"id_1", "id_2", "id_3", "id_4">>

\* a request the service rejects: the error envelope of the current
\* protocol, and nothing changed
ErrorAnswer(st, code) ==
    [store |-> st, code |-> code,
     body  |-> [EmptyObject EXCEPT !.status = [t |-> "num", s |-> "", n |-> code],
                                   !.title = "str"]]

\* an entity as a response body
EntityBody(e) ==
    [EmptyObject EXCEPT !.id = e.id,
                        !.status = [t |-> "str", s |-> e.status, n |-> 0],
                        !.amount = e.amount, !.description = e.description,
                        !.orderNumber = e.orderNumber, !.shipping = e.shipping]

\* the path of a request after the base URL and the API version, taken
\* apart: a collection (<resource> or <resource>/<id>/<subresource>) or an
\* entity of a collection
Route(url) ==
    LET p == SubSeq(url, 5, Len(url)) IN
    CASE Len(p) = 1 -> [kind |-> "collection", coll |-> p, id |-> << >>]
      [] Len(p) = 3 /\ p[2] = "/" ->
            [kind |-> "entity", coll |-> <<p[1]>>, id |-> <<p[3]>>]
      [] Len(p) = 5 /\ p[2] = "/" /\ p[4] = "/" ->
            [kind |-> "collection", coll |-> p, id |-> << >>]
      [] Len(p) = 7 /\ p[2] = "/" /\ p[4] = "/" /\ p[6] = "/" ->
            [kind |-> "entity", coll |-> SubSeq(p, 1, 5), id |-> <<p[7]>>]
      [] OTHER -> [kind |-> "none", coll |-> << >>, id |-> << >>]

\* the positions in the store of the entities of a collection, oldest first
RECURSIVE Members(_, _, _)
Members(st, coll, i) ==
    IF i > Len(st) THEN << >>
    ELSE (IF st[i].coll = coll THEN <<i>> ELSE << >>) \o Members(st, coll, i + 1)

\* the position of an entity in the store, 0 when the service has none
Find(st, coll, id) ==
    IF \E i \in DOMAIN st : st[i].coll = coll /\ st[i].id = id
    THEN CHOOSE i \in DOMAIN st : st[i].coll = coll /\ st[i].id = id
    ELSE 0

\* a sub-resource collection exists when the entity it belongs to does
CollectionExists(st, coll) ==
    Len(coll) = 1 \/ Find(st, <<coll[1]>>, <<coll[3]>>) # 0

\* the members of a JSON request body that the service keeps
HasMember(j, name) == j.t = "obj" /\ j.m # << >> /\ name \in DOMAIN j.m

AmountMember(j, old) ==
    IF ~HasMember(j, "amount") THEN old
    ELSE LET a == j.m["amount"] IN
         CASE a.t = "obj" -> [t |-> "obj", currency |-> a.m["currency"].s,
                              value |-> a.m["value"].s]
           [] a.t = "str" -> [t |-> "str", currency |-> << >>, value |-> a.s]
           [] OTHER       -> old

StringMember(j, name, old) ==
    IF HasMember(j, name) /\ j.m[name].t = "str" THEN j.m[name].s ELSE old

AddressMember(j, name, old) ==
    IF HasMember(j, name) /\ j.m[name].t = "obj"
    THEN << [StreetAndNumber |-> j.m[name].m["streetAndNumber"].s,
             City |-> j.m[name].m["city"].s] >>
    ELSE old

\* POST on a collection: the entity is created from the members of the body
\* and returned, with the id the service assigns
ServerCreate(st, coll, body) ==
    IF body = << >> \/ body[1].t # "obj" \/ ~CollectionExists(st, coll)
    THEN ErrorAnswer(st, IF CollectionExists(st, coll) THEN 422 ELSE 404)
    ELSE LET e == [coll |-> coll,
                   id |-> <<EntityIds[Len(Members(st, coll, 1)) + 1]>>,
                   status |-> "open",
                   amount |-> AmountMember(body[1], EmptyObject.amount),
                   description |-> StringMember(body[1], "description", << >>),
                   orderNumber |-> StringMember(body[1], "orderNumber", << >>),
                   shipping |-> AddressMember(body[1], "shippingAddress", << >>)]
         IN  [store |-> Append(st, e), code |-> 201, body |-> EntityBody(e)]

\* GET on an entity
ServerFetch(st, coll, id) ==
    IF Find(st, coll, id) = 0 THEN ErrorAnswer(st, 404)
    ELSE [store |-> st, code |-> 200, body |-> EntityBody(st[Find(st, coll, id)])]

\* PATCH on an entity: the members of the body replace the fields they
\* name, the other fields stay
ServerUpdate(st, coll, id, body) ==
    LET i == Find(st, coll, id) IN
    IF i = 0 THEN ErrorAnswer(st, 404)
    ELSE IF body = << >> \/ body[1].t # "obj" THEN ErrorAnswer(st, 422)
    ELSE LET e == [st[i] EXCEPT
                      !.orderNumber = StringMember(body[1], "orderNumber", @),
                      !.shipping = AddressMember(body[1], "shippingAddress", @)]
         IN  [store |-> [st EXCEPT ![i] = e], code |-> 200, body |-> EntityBody(e)]

\* DELETE on an entity: an open entity becomes canceled and is returned
ServerCancel(st, coll, id) ==
    LET i == Find(st, coll, id) IN
    IF i = 0 THEN ErrorAnswer(st, 404)
    ELSE IF st[i].status # "open" THEN ErrorAnswer(st, 422)
    ELSE LET e == [st[i] EXCEPT !.status = "canceled"]
         IN  [store |-> [st EXCEPT ![i] = e], code |-> 200, body |-> EntityBody(e)]

\* the ids of the entities at the given positions, newest first
RECURSIVE NewestFirst(_, _)
NewestFirst(st, positions) ==
    IF positions = << >> THEN << >>
    ELSE NewestFirst(st, Tail(positions)) \o <<st[Head(positions)].id>>

\* GET on a collection: the entities newest first, from the entity the
\* cursor names on, and no more of them than the limit; they are listed
\* under _embedded.<resource>, with a next link when there are more
ServerList(st, coll, query) ==
    LET all    == NewestFirst(st, Members(st, coll, 1))
        from   == IF <<"from">> \in DOMAIN query THEN <<query[<<"from">>][1]>> ELSE << >>
        limit  == IF <<"limit">> \in DOMAIN query
                  THEN <<ParseUint(query[<<"limit">>][1])>> ELSE << >>
        start  == IF from = << >> THEN 1 ELSE IndexOf(all, from[1])
        rest   == SubSeq(all, start, Len(all))
        page   == IF limit = << >> \/ limit[1] >= Len(rest) THEN rest
                  ELSE SubSeq(rest, 1, limit[1])
    IN  IF ~CollectionExists(st, coll) THEN ErrorAnswer(st, 404)
        ELSE IF start = 0 \/ (limit # << >> /\ limit[1] = 0) THEN ErrorAnswer(st, 422)
        ELSE [store |-> st, code |-> 200,
              body |-> [EmptyObject EXCEPT
                           !.count = Len(page),
                           !.next = Len(page) < Len(rest),
                           !.embedded = [name |-> coll[Len(coll)], items |-> page]]]

\* the service handles one request
Serve(st, req) ==
    LET r == Route(req.url) IN
    CASE r.kind = "collection" /\ req.method = "GET"  -> ServerList(st, r.coll, req.query)
      [] r.kind = "collection" /\ req.method = "POST" -> ServerCreate(st, r.coll, req.body)
      [] r.kind = "entity" /\ req.method = "GET"      -> ServerFetch(st, r.coll, r.id)
      [] r.kind = "entity" /\ req.method = "PATCH"    -> ServerUpdate(st, r.coll, r.id, req.body)
      [] r.kind = "entity" /\ req.method = "DELETE"   -> ServerCancel(st, r.coll, r.id)
      [] OTHER                                        -> ErrorAnswer(st, 404)

----------------------------------------------------------------------------
(* Several threads calling the services of one Client *)

\* the number of threads that call at the same time
MaxThreads == 2

\* variant: the constructors hand the same builder to every service
AllocatedOnce(f) == 1

\* gollie.NewClient calls the constructor of every service, and every
\* constructor calls sling.New(), which returns a builder of its own: the
\* builder of a service is the one made by the call that constructed it
Allocated(f) ==
    IndexOf(<<"MethodService", "PaymentService", "CustomerService", "MandateService",
              "SubscriptionService", "OrderService", "ChargebackService">>, f)

\* variant: New() hands out the builder it was called on
ChildShared(parent, t) == parent

\* a *sling.Sling is the builder stored in a service (own = FALSE, at = the
\* builder of the service) or one made for a call (own = TRUE, at = the
\* thread of the call). s.sling.New() returns &Sling{...}: a builder made
\* for this call, whatever the parent
Child(parent, t) == [own |-> TRUE, at |-> t]

\* variant: every call decodes into the same target
TargetShared(t) == 1

\* payment := new(Payment): the target the answer is decoded into is made
\* by the call; it is named after the thread of the call
Target(t) == t

\* a thread that is not in a call. ret is the target of the thread's call
\* together with the response and the error the call returned.
IdleThread ==
    [pc |-> "idle", call |-> NoCall, ref |-> [own |-> TRUE, at |-> 0],
     child |-> slingNew, req |-> << >>, exchange |-> NoExchange, tgt |-> 0,
     ret |-> NoRet]

\* the calls a method makes on its builder after New(), up to Receive
Chain(c, s) ==
    CASE c.svc = "MethodService" -> Path(s, <<"methods">>)
      [] c.svc = "PaymentService" /\ c.op = "List" ->
            QueryStruct(Path(s, <<"payments">>), c.args.params)
      [] c.svc = "PaymentService" /\ c.op = "Fetch" ->
            Get(s, Sprintf1("payments", c.args.id))
      [] c.svc = "PaymentService" /\ c.op = "Create" ->
            BodyJSON(Post(s, <<"payments">>), c.args.body)
      [] c.svc = "PaymentService" /\ c.op = "Cancel" ->
            Delete(s, Sprintf1("payments", c.args.id))

----------------------------------------------------------------------------
(* The state machine *)

Init ==
    /\ rev \in Revisions
    /\ token \in Tokens
    /\ client = GollieNewClient(token, rev)
    /\ services = [n \in Standalone(rev) |-> NewService(token, rev)]
    /\ pc = "idle"
    /\ call = NoCall
    /\ wire = << >>
    /\ sent = << >>
    /\ exchange = NoExchange
    /\ recv = NoRecv
    /\ ret = NoRet
    /\ store = << >>
    /\ created = {}
    /\ thr = [t \in 1..MaxThreads |-> IdleThread]

\* The first half of every service method: new(T), new(MollieError), build
\* the request on a child of the stored sling, and Receive sends it.
Invoke(svc, op, args, s, shape, errShape, check, deref) ==
    /\ pc = "idle"
    /\ pc' = "sent"
    /\ call' = [svc |-> svc, op |-> op, args |-> args, shape |-> shape,
                errShape |-> errShape, check |-> check, deref |-> deref]
    /\ wire' = Do(wire, OnWire(Request(s)))
    /\ sent' = Do(sent, OnWire(Request(s)))
    /\ UNCHANGED <<rev, token, client, services, exchange, recv, ret, store, created, thr>>

\* the lines after Receive: error precedence and the return statement
MethodResult(check, r) ==
    Return(r.success, r.resp, ErrorPrecedence(check, r.err, r.failure))

\* The second half of every service method: Receive returns with the
\* outcome o of the round trip and the method returns, or panics: Fetch and
\* Create of the first revision read resp.Status before anything else
\* (call.deref), which panics on a nil resp.
Finish(o) ==
    LET r == Receive(o, call.shape, call.errShape) IN
    /\ exchange' = o
    /\ recv' = r
    /\ IF call.deref /\ r.resp.nil
       THEN pc' = "panicked" /\ ret' = NoRet
       ELSE pc' = "returned" /\ ret' = MethodResult(call.check, r)
    /\ wire' = << >>
    /\ UNCHANGED <<rev, token, client, services, call, sent, thr>>

\* the round trip against a server about which nothing is assumed
Complete ==
    /\ pc = "sent"
    /\ \E o \in Outcomes : Finish(o)
    /\ UNCHANGED <<store, created>>

\* the round trip against the remote service: it handles the request and
\* answers; the caller keeps the entity a Create returned with a nil error
\* and an id
ServerComplete ==
    /\ pc = "sent"
    /\ LET a == Serve(store, wire[1])
           o == [transport |-> "ok", code |-> a.code, body |-> a.body]
           r == MethodResult(call.check, Receive(o, call.shape, call.errShape))
       IN  /\ Finish(o)
           /\ store' = a.store
           /\ created' =
                 IF wire[1].method = "POST" /\ r.err = NilErr /\ r.payload.ID # << >>
                 THEN created \cup {[svc |-> call.svc, parent |-> call.args.id,
                                     e |-> r.payload]}
                 ELSE created

\* Control is back in the caller: the values of the finished call go out
\* of scope (a panic is taken to be recovered by the caller).
Resume ==
    /\ pc \in {"returned", "panicked"}
    /\ pc' = "idle"
    /\ call' = NoCall
    /\ exchange' = NoExchange
    /\ recv' = NoRecv
    /\ ret' = NoRet
    /\ sent' = << >>
    /\ UNCHANGED <<store, created>>
    /\ UNCHANGED <<rev, token, client, services, wire, thr>>

\* MethodService.List  (unnamed/part_001:141)
FirstMethodList ==
    /\ rev = "first"
    /\ Invoke("MethodService", "List", Args(<< >>, << >>, << >>, << >>, << >>),
          Path(New(Service("MethodService")), <<"methods">>),
          "MethodList", "first", "first", FALSE)

\* PaymentService.List  (unnamed/part_001:173)
FirstPaymentList ==
    /\ rev = "first"
    /\ \E params \in ParamsPtr(rev) :
         Invoke("PaymentService", "List", Args(<< >>, << >>, params, << >>, << >>),
             QueryStruct(Path(New(Service("PaymentService")), <<"payments">>), params),
             "PaymentList", "first", "first", FALSE)

\* PaymentService.Fetch  (unnamed/part_001:185)
FirstPaymentFetch ==
    /\ rev = "first"
    /\ \E id \in Ids :
         Invoke("PaymentService", "Fetch", Args(id, << >>, << >>, << >>, << >>),
             Get(New(Service("PaymentService")), Sprintf1("payments", id)),
             "PaymentV1", "first", "first", TRUE)

\* PaymentService.Create  (unnamed/part_001:198)
FirstPaymentCreate ==
    /\ rev = "first"
    /\ \E body \in PtrTo(Requests("PaymentRequestV1")) :
         Invoke("PaymentService", "Create", Args(<< >>, << >>, << >>, body, << >>),
             BodyJSON(Post(New(Service("PaymentService")), <<"payments">>), body),
             "PaymentV1", "first", "first", TRUE)

\* MethodService.List  (unnamed/part_005:55)
V1MethodList ==
    /\ rev = "v1"
    /\ Invoke("MethodService", "List", Args(<< >>, << >>, << >>, << >>, << >>),
          Path(New(Service("MethodService")), <<"methods">>),
          "MethodList", "v1", "type", FALSE)

\* PaymentService.List  (services/payment.go:227)
V1PaymentList ==
    /\ rev = "v1"
    /\ \E params \in ParamsPtr(rev) :
         Invoke("PaymentService", "List", Args(<< >>, << >>, params, << >>, << >>),
             QueryStruct(Path(New(Service("PaymentService")), <<"payments">>), params),
             "PaymentList", "v1", "type", FALSE)

\* PaymentService.Fetch  (services/payment.go:239)
V1PaymentFetch ==
    /\ rev = "v1"
    /\ \E id \in Ids :
         Invoke("PaymentService", "Fetch", Args(id, << >>, << >>, << >>, << >>),
             Get(New(Service("PaymentService")), Sprintf1("payments", id)),
             "PaymentV1", "v1", "type", FALSE)

\* PaymentService.Create  (services/payment.go:250)
V1PaymentCreate ==
    /\ rev = "v1"
    /\ \E body \in PtrTo(Requests("PaymentRequestV1")) :
         Invoke("PaymentService", "Create", Args(<< >>, << >>, << >>, body, << >>),
             BodyJSON(Post(New(Service("PaymentService")), <<"payments">>), body),
             "PaymentV1", "v1", "type", FALSE)

\* PaymentService.CreateRefund  (unnamed/part_004:176)
V1PaymentCreateRefund ==
    /\ rev = "v1"
    /\ \E id \in Ids, body \in PtrTo(Requests("PaymentRefundRequest")) :
         Invoke("PaymentService", "CreateRefund", Args(id, << >>, << >>, body, << >>),
             BodyJSON(Post(New(Service("PaymentService")), Sprintf1Sub("payments", id, "refunds")), body),
             "PaymentRefund", "v1", "type", FALSE)

\* PaymentService.FetchRefund  (unnamed/part_004:187)
V1PaymentFetchRefund ==
    /\ rev = "v1"
    /\ \E id \in Ids, subId \in Ids :
         Invoke("PaymentService", "FetchRefund", Args(id, subId, << >>, << >>, << >>),
             Get(New(Service("PaymentService")), Sprintf2("payments", id, "refunds", subId)),
             "PaymentRefund", "v1", "type", FALSE)

\* PaymentService.RefundList  (unnamed/part_004:198)
V1PaymentRefundList ==
    /\ rev = "v1"
    /\ \E id \in Ids, params \in ParamsPtr(rev) :
         Invoke("PaymentService", "RefundList", Args(id, << >>, params, << >>, << >>),
             QueryStruct(Path(New(Service("PaymentService")), Sprintf1Sub("payments", id, "refunds")), params),
             "PaymentRefundList", "v1", "type", FALSE)

\* PaymentService.FetchChargeback  (unnamed/part_004:210)
V1PaymentFetchChargeback ==
    /\ rev = "v1"
    /\ \E id \in Ids, subId \in Ids :
         Invoke("PaymentService", "FetchChargeback", Args(id, subId, << >>, << >>, << >>),
             Get(New(Service("PaymentService")), Sprintf2("payments", id, "chargebacks", subId)),
             "PaymentChargeback", "v1", "type", FALSE)

\* PaymentService.ChargebackList  (unnamed/part_004:221)
V1PaymentChargebackList ==
    /\ rev = "v1"
    /\ \E id \in Ids, params \in ParamsPtr(rev) :
         Invoke("PaymentService", "ChargebackList", Args(id, << >>, params, << >>, << >>),
             QueryStruct(Path(New(Service("PaymentService")), Sprintf1Sub("payments", id, "chargebacks")), params),
             "PaymentChargebackList", "v1", "type", FALSE)

\* CustomerService.MandateList  (unnamed/part_007:165)
V1CustomerMandateList ==
    /\ rev = "v1"
    /\ \E id \in Ids, params \in ParamsPtr(rev) :
         Invoke("CustomerService", "MandateList", Args(id, << >>, params, << >>, << >>),
             QueryStruct(Path(New(Service("CustomerService")), Sprintf1Sub("customers", id, "mandates")), params),
             "MandateList", "v1", "type", FALSE)

\* CustomerService.Mandate  (unnamed/part_007:177)
V1CustomerMandate ==
    /\ rev = "v1"
    /\ \E id \in Ids, body \in Requests("PaymentRequestV1") :
         Invoke("CustomerService", "Mandate", Args(id, << >>, << >>, <<body>>, << >>),
             BodyJSON(Post(New(Service("CustomerService")), Sprintf1Sub("customers", id, "mandates")), <<body>>),
             "Mandate", "v1", "type", FALSE)

\* CustomerService.MandateFetch  (unnamed/part_007:189)
V1CustomerMandateFetch ==
    /\ rev = "v1"
    /\ \E id \in Ids, subId \in Ids :
         Invoke("CustomerService", "MandateFetch", Args(id, subId, << >>, << >>, << >>),
             Path(New(Service("CustomerService")), Sprintf2("customers", id, "mandates", subId)),
             "Mandate", "v1", "type", FALSE)

\* CustomerService.List  (services/customer.go:75)
CustomerList ==
    /\ rev \in {"v1", "v2"}
    /\ \E params \in ParamsPtr(rev) :
         Invoke("CustomerService", "List", Args(<< >>, << >>, params, << >>, << >>),
             QueryStruct(Path(New(Service("CustomerService")), <<"customers">>), params),
             "CustomerList", "v1", "type", FALSE)

\* CustomerService.Fetch  (services/customer.go:87)
CustomerFetch ==
    /\ rev \in {"v1", "v2"}
    /\ \E id \in Ids :
         Invoke("CustomerService", "Fetch", Args(id, << >>, << >>, << >>, << >>),
             Get(New(Service("CustomerService")), Sprintf1("customers", id)),
             "Customer", "v1", "type", FALSE)

\* CustomerService.Create  (services/customer.go:98)
CustomerCreate ==
    /\ rev \in {"v1", "v2"}
    /\ \E body \in PtrTo(Requests("CustomerRequest")) :
         Invoke("CustomerService", "Create", Args(<< >>, << >>, << >>, body, << >>),
             BodyJSON(Post(New(Service("CustomerService")), <<"customers">>), body),
             "Customer", "v1", "type", FALSE)

\* CustomerService.PaymentList  (services/customer.go:109)
CustomerPaymentList ==
    /\ rev \in {"v1", "v2"}
    /\ \E id \in Ids, params \in ParamsPtr(rev) :
         Invoke("CustomerService", "PaymentList", Args(id, << >>, params, << >>, << >>),
             QueryStruct(Path(New(Service("CustomerService")), Sprintf1Sub("customers", id, "payments")), params),
             "PaymentList", "v1", "type", FALSE)

\* CustomerService.Payment  (services/customer.go:121)
CustomerPayment ==
    /\ rev \in {"v1", "v2"}
    /\ \E id \in Ids, body \in Requests(PaymentRequestOf(rev)) :
         Invoke("CustomerService", "Payment", Args(id, << >>, << >>, <<body>>, << >>),
             BodyJSON(Post(New(Service("CustomerService")), Sprintf1Sub("customers", id, "payments")), <<body>>),
             "CustomerPayment", "v1", "type", FALSE)

\* SubscriptionService.List  (services/subscription.go:67)
SubscriptionList ==
    /\ rev \in {"v1", "v2"}
    /\ \E id \in Ids, params \in ParamsPtr(rev) :
         Invoke("SubscriptionService", "List", Args(id, << >>, params, << >>, << >>),
             QueryStruct(Path(New(Service("SubscriptionService")), Sprintf1Sub("customers", id, "subscriptions")), params),
             "SubscriptionList", "v1", "type", FALSE)

\* SubscriptionService.Fetch  (services/subscription.go:79)
SubscriptionFetch ==
    /\ rev \in {"v1", "v2"}
    /\ \E id \in Ids, subId \in Ids :
         Invoke("SubscriptionService", "Fetch", Args(id, subId, << >>, << >>, << >>),
             Get(New(Service("SubscriptionService")), Sprintf2("customers", id, "subscriptions", subId)),
             "Subscription", "v1", "type", FALSE)

\* SubscriptionService.Create  (services/subscription.go:90)
SubscriptionCreate ==
    /\ rev \in {"v1", "v2"}
    /\ \E id \in Ids, body \in PtrTo(Requests("SubscriptionRequest")) :
         Invoke("SubscriptionService", "Create", Args(id, << >>, << >>, body, << >>),
             BodyJSON(Post(New(Service("SubscriptionService")), Sprintf1Sub("customers", id, "subscriptions")), body),
             "Subscription", "v1", "type", FALSE)

\* MethodService.List  (unnamed/part_005:112)
MethodList ==
    /\ rev = "v2"
    /\ Invoke("MethodService", "List", Args(<< >>, << >>, << >>, << >>, << >>),
          Path(New(Service("MethodService")), <<"methods">>),
          "MethodList", "v2", "status", FALSE)

\* PaymentService.List  (services/payment.go:114)
PaymentList ==
    /\ rev = "v2"
    /\ \E params \in ParamsPtr(rev) :
         Invoke("PaymentService", "List", Args(<< >>, << >>, params, << >>, << >>),
             QueryStruct(Path(New(Service("PaymentService")), <<"payments">>), params),
             "PaymentList", "v2", "status", FALSE)

\* PaymentService.Fetch  (services/payment.go:126)
PaymentFetch ==
    /\ rev = "v2"
    /\ \E id \in Ids :
         Invoke("PaymentService", "Fetch", Args(id, << >>, << >>, << >>, << >>),
             Get(New(Service("PaymentService")), Sprintf1("payments", id)),
             "Payment", "v2", "status", FALSE)

\* PaymentService.Create  (services/payment.go:137)
PaymentCreate ==
    /\ rev = "v2"
    /\ \E body \in PtrTo(Requests("PaymentRequest")) :
         Invoke("PaymentService", "Create", Args(<< >>, << >>, << >>, body, << >>),
             BodyJSON(Post(New(Service("PaymentService")), <<"payments">>), body),
             "Payment", "v2", "status", FALSE)

\* PaymentService.Cancel  (services/payment.go:148)
PaymentCancel ==
    /\ rev = "v2"
    /\ \E id \in Ids :
         Invoke("PaymentService", "Cancel", Args(id, << >>, << >>, << >>, << >>),
             Delete(New(Service("PaymentService")), Sprintf1("payments", id)),
             "Payment", "v2", "status", FALSE)

\* MandateService.List  (services/mandate.go:61)
MandateList ==
    /\ rev = "v2"
    /\ \E id \in Ids, params \in ParamsPtr(rev) :
         Invoke("MandateService", "List", Args(id, << >>, params, << >>, << >>),
             QueryStruct(Path(New(Service("MandateService")), Sprintf1Sub("customers", id, "mandates")), params),
             "MandateList", "v2", "status", FALSE)

\* MandateService.Create  (services/mandate.go:73)
MandateCreate ==
    /\ rev = "v2"
    /\ \E id \in Ids, body \in Requests("PaymentRequest") :
         Invoke("MandateService", "Create", Args(id, << >>, << >>, <<body>>, << >>),
             BodyJSON(Post(New(Service("MandateService")), Sprintf1Sub("customers", id, "mandates")), <<body>>),
             "Mandate", "v2", "status", FALSE)

\* MandateService.Fetch  (services/mandate.go:85)
MandateFetch ==
    /\ rev = "v2"
    /\ \E id \in Ids, subId \in Ids :
         Invoke("MandateService", "Fetch", Args(id, subId, << >>, << >>, << >>),
             Path(New(Service("MandateService")), Sprintf2("customers", id, "mandates", subId)),
             "Mandate", "v2", "status", FALSE)

\* OrderService.List  (unnamed/part_001:425)
OrderList ==
    /\ rev = "v2"
    /\ \E params \in ParamsPtr(rev) :
         Invoke("OrderService", "List", Args(<< >>, << >>, params, << >>, << >>),
             QueryStruct(Path(New(Service("OrderService")), <<"orders">>), params),
             "OrderList", "v2", "status", FALSE)

\* OrderService.Fetch  (unnamed/part_001:437)
OrderFetch ==
    /\ rev = "v2"
    /\ \E id \in Ids, embed \in EmbedPtr :
         Invoke("OrderService", "Fetch", Args(id, << >>, << >>, << >>, embed),
             Get(New(Service("OrderService")), EmbedPath(Sprintf1("orders", id), embed)),
             "Order", "v2", "status", FALSE)

\* OrderService.Create  (unnamed/part_001:453)
OrderCreate ==
    /\ rev = "v2"
    /\ \E body \in PtrTo(Requests("OrderRequest")) :
         Invoke("OrderService", "Create", Args(<< >>, << >>, << >>, body, << >>),
             BodyJSON(Post(New(Service("OrderService")), <<"orders">>), body),
             "Order", "v2", "status", FALSE)

\* OrderService.Cancel  (unnamed/part_001:464)
OrderCancel ==
    /\ rev = "v2"
    /\ \E id \in Ids :
         Invoke("OrderService", "Cancel", Args(id, << >>, << >>, << >>, << >>),
             Delete(New(Service("OrderService")), Sprintf1("orders", id)),
             "Order", "v2", "status", FALSE)

\* OrderService.Update  (unnamed/part_001:476)
OrderUpdate ==
    /\ rev = "v2"
    /\ \E id \in Ids, body \in PtrTo(Requests("OrderUpdateRequest")) :
         Invoke("OrderService", "Update", Args(id, << >>, << >>, body, << >>),
             BodyJSON(Patch(New(Service("OrderService")), Sprintf1("orders", id)), body),
             "Order", "v2", "status", FALSE)

\* OrderService.UpdateLine  (unnamed/part_001:487)
OrderUpdateLine ==
    /\ rev = "v2"
    /\ \E id \in Ids, subId \in Ids, body \in PtrTo(Requests("OrderLineRequest")) :
         Invoke("OrderService", "UpdateLine", Args(id, subId, << >>, body, << >>),
             BodyJSON(Patch(New(Service("OrderService")), Sprintf2("orders", id, "lines", subId)), body),
             "Order", "v2", "status", FALSE)

\* OrderService.CreatePayment  (unnamed/part_001:498)
OrderCreatePayment ==
    /\ rev = "v2"
    /\ \E id \in Ids, body \in PtrTo(Requests("OrderPaymentRequest")) :
         Invoke("OrderService", "CreatePayment", Args(id, << >>, << >>, body, << >>),
             BodyJSON(Post(New(Service("OrderService")), Sprintf1Sub("orders", id, "payments")), body),
             "Payment", "v2", "status", FALSE)

\* OrderService.CreateRefund  (unnamed/part_001:509)
OrderCreateRefund ==
    /\ rev = "v2"
    /\ \E id \in Ids, body \in PtrTo(Requests("OrderRefundRequest")) :
         Invoke("OrderService", "CreateRefund", Args(id, << >>, << >>, body, << >>),
             BodyJSON(Post(New(Service("OrderService")), Sprintf1Sub("orders", id, "refunds")), body),
             "OrderRefund", "v2", "status", FALSE)

\* OrderService.FetchRefund  (unnamed/part_001:520)
OrderFetchRefund ==
    /\ rev = "v2"
    /\ \E id \in Ids, subId \in Ids :
         Invoke("OrderService", "FetchRefund", Args(id, subId, << >>, << >>, << >>),
             Get(New(Service("OrderService")), Sprintf2("orders", id, "refunds", subId)),
             "OrderRefund", "v2", "status", FALSE)

\* OrderService.RefundList  (unnamed/part_001:531)
OrderRefundList ==
    /\ rev = "v2"
    /\ \E id \in Ids, params \in ParamsPtr(rev) :
         Invoke("OrderService", "RefundList", Args(id, << >>, params, << >>, << >>),
             QueryStruct(Path(New(Service("OrderService")), Sprintf1Sub("orders", id, "refunds")), params),
             "OrderRefundList", "v2", "status", FALSE)

\* ChargebackService.Fetch  (unnamed/part_003:56)
ChargebackFetch ==
    /\ rev = "v2"
    /\ \E id \in Ids, subId \in Ids :
         Invoke("ChargebackService", "Fetch", Args(id, subId, << >>, << >>, << >>),
             Get(New(Service("ChargebackService")), Sprintf2("payments", id, "chargebacks", subId)),
             "Chargeback", "v2", "status", FALSE)

\* ChargebackService.List  (unnamed/part_003:67)
ChargebackList ==
    /\ rev = "v2"
    /\ \E id \in Ids, params \in ParamsPtr(rev) :
         Invoke("ChargebackService", "List", Args(id, << >>, params, << >>, << >>),
             QueryStruct(Path(New(Service("ChargebackService")), Sprintf1Sub("payments", id, "chargebacks")), params),
             "ChargebackList", "v2", "status", FALSE)

Next ==
    \/ Complete
    \/ Resume
    \/ FirstMethodList
    \/ FirstPaymentList
    \/ FirstPaymentFetch
    \/ FirstPaymentCreate
    \/ V1MethodList
    \/ V1PaymentList
    \/ V1PaymentFetch
    \/ V1PaymentCreate
    \/ V1PaymentCreateRefund
    \/ V1PaymentFetchRefund
    \/ V1PaymentRefundList
    \/ V1PaymentFetchChargeback
    \/ V1PaymentChargebackList
    \/ V1CustomerMandateList
    \/ V1CustomerMandate
    \/ V1CustomerMandateFetch
    \/ CustomerList
    \/ CustomerFetch
    \/ CustomerCreate
    \/ CustomerPaymentList
    \/ CustomerPayment
    \/ SubscriptionList
    \/ SubscriptionFetch
    \/ SubscriptionCreate
    \/ MethodList
    \/ PaymentList
    \/ PaymentFetch
    \/ PaymentCreate
    \/ PaymentCancel
    \/ MandateList
    \/ MandateCreate
    \/ MandateFetch
    \/ OrderList
    \/ OrderFetch
    \/ OrderCreate
    \/ OrderCancel
    \/ OrderUpdate
    \/ OrderUpdateLine
    \/ OrderCreatePayment
    \/ OrderCreateRefund
    \/ OrderFetchRefund
    \/ OrderRefundList
    \/ ChargebackFetch
    \/ ChargebackList


Spec == Init /\ [][Next]_vars

\* The current library against the remote service: the services that
\* create, read, change and cancel entities, each round trip answered by
\* the service.
MollieInit == Init /\ rev = "v2"

MollieNext ==
    \/ PaymentList
    \/ PaymentFetch
    \/ (Len(store) < MaxEntities /\ PaymentCreate)
    \/ PaymentCancel
    \/ OrderList
    \/ OrderFetch
    \/ (Len(store) < MaxEntities /\ OrderCreate)
    \/ OrderCancel
    \/ OrderUpdate
    \/ OrderUpdateLine
    \/ CustomerList
    \/ CustomerFetch
    \/ (Len(store) < MaxEntities /\ CustomerCreate)
    \/ (Len(store) < MaxEntities /\ CustomerPayment)
    \/ SubscriptionFetch
    \/ (Len(store) < MaxEntities /\ SubscriptionCreate)
    \/ MandateList
    \/ MandateFetch
    \/ (Len(store) < MaxEntities /\ MandateCreate)
    \/ CustomerPaymentList
    \/ OrderRefundList
    \/ ServerComplete
    \/ Resume

MollieSpec == MollieInit /\ [][MollieNext]_vars

\* Several threads call PaymentService and MethodService of the Client at
\* the same time; every step of a call is a step of its thread.

\* the builder a pointer points to
Builder(ref) ==
    IF ref.own THEN thr[ref.at].child
    ELSE client[CHOOSE f \in DOMAIN client : Allocated(f) = ref.at]

\* A thread enters a method of PaymentService or, on another service,
\* MethodService.List:  payments := new(PaymentList);  mollieError :=
\* new(MollieError);  s.sling.New(), the builder of the call, with a copy
\* of the properties of the stored builder
ThreadNew(t) ==
    LET Call(svc, op, args, shape) ==
            [svc |-> svc, op |-> op, args |-> args, shape |-> shape,
             errShape |-> "v2", check |-> "status", deref |-> FALSE]
        Calls ==
            {Call("PaymentService", "List", Args(<< >>, << >>, p, << >>, << >>),
                  "PaymentList") :
                p \in {<< >>, << [From |-> << >>, Limit |-> <<1>>] >>}}
            \cup {Call("PaymentService", "Fetch", Args(id, << >>, << >>, << >>, << >>),
                       "Payment") : id \in {<<"id_1">>, <<"id_2">>}}
            \cup {Call("PaymentService", "Create",
                       Args(<< >>, << >>, << >>,
                            << Build("PaymentRequest",
                                     [Amount |-> SetTo(Amount1050),
                                      Description |-> SetTo(RedBucket),
                                      WebhookUrl |-> Unset]) >>, << >>), "Payment"),
                  Call("PaymentService", "Cancel",
                       Args(<<"id_1">>, << >>, << >>, << >>, << >>), "Payment"),
                  Call("MethodService", "List", Args(<< >>, << >>, << >>, << >>, << >>),
                       "MethodList")}
    IN
    /\ thr[t].pc = "idle"
    /\ \E c \in Calls :
         thr' = [thr EXCEPT ![t] =
                    [IdleThread EXCEPT !.pc = "new", !.call = c,
                         !.tgt = Target(t),
                         !.ref = Child([own |-> FALSE, at |-> Allocated(c.svc)], t),
                         !.child = New(Service(c.svc))]]
    /\ UNCHANGED <<rev, token, client, services, pc, call, wire, sent, exchange, recv,
                   ret, store, created>>

\* .Path(...).QueryStruct(...) and the like: each sets properties of the
\* builder it is called on
ThreadBuild(t) ==
    /\ thr[t].pc = "new"
    /\ LET ref == thr[t].ref
           s   == Chain(thr[t].call, Builder(ref))
       IN  IF ref.own
           THEN /\ thr' = [thr EXCEPT ![t].pc = "built", ![ref.at].child = s]
                /\ client' = client
           ELSE /\ thr' = [thr EXCEPT ![t].pc = "built"]
                /\ client' = [f \in DOMAIN client |->
                                 IF Allocated(f) = ref.at THEN s ELSE client[f]]
    /\ UNCHANGED <<rev, token, services, pc, call, wire, sent, exchange, recv, ret,
                   store, created>>

\* .Receive(payments, mollieError): the request is built from the builder
\* and handed to the http client
ThreadSend(t) ==
    /\ thr[t].pc = "built"
    /\ thr' = [thr EXCEPT ![t].pc = "sent",
                          ![t].req = Do(<< >>, OnWire(Request(Builder(thr[t].ref))))]
    /\ UNCHANGED <<rev, token, client, services, pc, call, wire, sent, exchange, recv,
                   ret, store, created>>

\* Receive returns with the answer to the request of the thread, decoded
\* into the target of the call, and the method returns
ThreadReturn(t) ==
    /\ thr[t].pc = "sent"
    /\ \E o \in {[transport |-> "noresp", code |-> 0, body |-> Malformed],
                  [transport |-> "ok", code |-> 200,
                   body |-> [EmptyObject EXCEPT
                                !.id = <<"id_1">>,
                                !.status = [t |-> "str", s |-> "open", n |-> 0],
                                !.amount = [t |-> "obj", currency |-> Amount1050.Currency,
                                            value |-> Amount1050.Value]]],
                  [transport |-> "ok", code |-> 200,
                   body |-> [EmptyObject EXCEPT
                                !.id = <<"id_1">>,
                                !.status = [t |-> "str", s |-> "canceled", n |-> 0]]],
                  [transport |-> "ok", code |-> 200,
                   body |-> [EmptyObject EXCEPT !.count = 1, !.data = << <<"id_1">> >>]],
                  [transport |-> "ok", code |-> 422,
                   body |-> [EmptyObject EXCEPT
                                !.status = [t |-> "num", s |-> "", n |-> 422],
                                !.title = "str"]]} :
         thr' = [thr EXCEPT ![t].pc = "returned", ![t].exchange = o,
                    ![thr[t].tgt].ret =
                        MethodResult(thr[t].call.check,
                            Receive(o, thr[t].call.shape, thr[t].call.errShape))]
    /\ UNCHANGED <<rev, token, client, services, pc, call, wire, sent, exchange, recv,
                   ret, store, created>>

\* the caller changes the entity a Fetch returned to it
ThreadMutate(t) ==
    /\ thr[t].pc = "returned"
    /\ thr[t].call.op = "Fetch"
    /\ thr[thr[t].tgt].ret.err = NilErr
    /\ thr' = [thr EXCEPT ![t].pc = "changed",
                          ![thr[t].tgt].ret.payload.Status = "changed",
                          ![thr[t].tgt].ret.payload.Amount = ZeroAmount]
    /\ UNCHANGED <<rev, token, client, services, pc, call, wire, sent, exchange, recv,
                   ret, store, created>>

\* the caller of the thread goes on
ThreadResume(t) ==
    /\ thr[t].pc \in {"returned", "changed"}
    /\ thr' = [thr EXCEPT ![t] = IdleThread]
    /\ UNCHANGED <<rev, token, client, services, pc, call, wire, sent, exchange, recv,
                   ret, store, created>>

ConcNext ==
    \E t \in 1..MaxThreads :
        \/ ThreadNew(t)
        \/ ThreadBuild(t)
        \/ ThreadSend(t)
        \/ ThreadReturn(t)
        \/ ThreadMutate(t)
        \/ ThreadResume(t)

ConcSpec == MollieInit /\ [][ConcNext]_vars


----------------------------------------------------------------------------
(* Properties *)

Finished == pc \in {"returned", "panicked"}

Is2xx(c) == 200 <= c /\ c <= 299

\* the discriminant of the protocol a method's error type belongs to
IndicatesError(errShape, m) ==
    CASE errShape = "v2"    -> m.Status >= 300
      [] errShape = "v1"    -> m.Type # ""
      [] errShape = "first" -> FALSE

\* the response the transport produced, nil when it produced none
TransportResponse ==
    IF exchange.transport \in {"ok", "errresp"} THEN Response(exchange.code)
                                                ELSE NoResponse

\* C1: when Receive reports no error and the decoded error target indicates
\* an error by its protocol's discriminant, the method returns that decoded
\* error, which is not nil.
C1_DomainErrorReturned ==
    (pc = "returned" /\ recv.err = NilErr
        /\ IndicatesError(call.errShape, recv.failure))
    => (ret.err # NilErr /\ ret.err = MollieErr(recv.failure))

C1_Witness ==
    /\ pc = "returned" /\ rev = "v2"
    /\ call.svc = "PaymentService" /\ call.op = "Create"
    /\ exchange.transport = "ok" /\ exchange.code = 422
    /\ recv.err = NilErr /\ recv.failure.Status = 422
    /\ ret.err = MollieErr(recv.failure)

\* C2: when Receive returns an error, a method of the services package
\* returns, and what any method returns is exactly that error, whatever the
\* error target holds.
C2_TransportErrorVerbatim ==
    (Finished /\ recv.err # NilErr)
    => /\ pc = "returned" => ret.err = recv.err
       /\ rev # "first" => pc = "returned"

C2_Witness ==
    /\ pc = "returned" /\ rev = "v2"
    /\ call.svc = "MandateService" /\ call.op = "List"
    /\ recv.err # NilErr /\ recv.failure.Status >= 300
    /\ ret.err = recv.err

\* C3: when Receive reports no error and the discriminant of the decoded
\* error target is empty, the method returns a nil error and the decoded
\* success value, in every revision.
C3_SuccessReturnsNil ==
    (pc = "returned" /\ recv.err = NilErr
        /\ ~IndicatesError(call.errShape, recv.failure))
    => (ret.err = NilErr /\ ret.payload = recv.success)

\* C4: on every service of the v2 library, a completed exchange with a
\* status outside 2xx whose body is a v2 error envelope with status >= 300
\* makes the method return a non-nil error.
C4_OneDiscriminant ==
    (pc = "returned" /\ rev = "v2" /\ exchange.transport = "ok"
        /\ ~Is2xx(exchange.code) /\ exchange.body.json
        /\ exchange.body.status.t = "num" /\ exchange.body.status.n >= 300
        /\ exchange.body.title = "str")
    => ret.err # NilErr

\* C5: whenever the exchange completes with a status code outside 200-299,
\* the returned error is not nil, whatever the body holds.
C5_FailedCallReturnsError ==
    (pc = "returned" /\ exchange.transport = "ok" /\ ~Is2xx(exchange.code))
    => ret.err # NilErr

\* C6: whenever the returned error is not nil, the returned payload is the
\* zero value.
C6_FailClosed ==
    (pc = "returned" /\ ret.err # NilErr) => ret.payload = ZeroPayload

\* C7: the response the transport produced is the second result of the
\* call, on every path; the second result is nil only when the transport
\* produced no response.
C7_RawResponseReturned ==
    /\ pc = "returned" => ret.resp = TransportResponse
    /\ (Finished /\ ~TransportResponse.nil) => pc = "returned"

C7_Witness ==
    /\ pc = "returned" /\ rev = "v2"
    /\ call.svc = "PaymentService" /\ call.op = "Cancel"
    /\ ret.err.kind = "mollie"
    /\ ~ret.resp.nil /\ ret.resp.StatusCode = 422

\* C8: whenever a method of the current protocol returns a decoded domain
\* error together with a response, the error's Status equals the status
\* code of that response.
C8_ErrorCarriesHttpStatus ==
    (pc = "returned" /\ call.errShape = "v2" /\ ret.err.kind = "mollie"
        /\ ~ret.resp.nil)
    => ret.err.e.Status = ret.resp.StatusCode

ResourceServices ==
    {"MethodService", "PaymentService", "CustomerService", "MandateService",
     "SubscriptionService", "OrderService", "ChargebackService"}

\* C9: the Client that NewClient returns holds a configured instance of
\* every resource service of the library, Chargeback included.
C9_ClientHoldsEveryService ==
    rev = "v2" =>
        \A f \in ResourceServices :
            f \in DOMAIN client /\ client[f] = NewClient(token, rev)

CanonicalAuthorization == <<"A","u","t","h","o","r","i","z","a","t","i","o","n">>
CanonicalUserAgent     == <<"U","s","e","r","-","A","g","e","n","t">>

\* C10: every request sent carries Authorization: Bearer <token given at
\* construction> and the fixed User-Agent, and its URL starts with the base
\* URL and the API version segment.
C10_HeadersAndBaseOnEveryRequest ==
    \A i \in DOMAIN wire :
        /\ CanonicalAuthorization \in DOMAIN wire[i].header
        /\ wire[i].header[CanonicalAuthorization] = <<"Bearer", " ">> \o token
        /\ CanonicalUserAgent \in DOMAIN wire[i].header
        /\ wire[i].header[CanonicalUserAgent] = userAgentValue
        /\ Len(wire[i].url) >= 4
        /\ SubSeq(wire[i].url, 1, 4) =
               <<"https://api.mollie.nl", "/", IF rev = "v2" THEN "v2" ELSE "v1", "/">>

\* C11: a service method call issues exactly one HTTP request: from the
\* moment Receive is entered until the method has returned (or panicked),
\* on the success path, on a transport failure and on a domain error alike,
\* the call has sent one request and no second one is on the wire.
C11_OneRequestPerCall ==
    /\ pc = "idle" => sent = << >>
    /\ (pc = "sent" \/ Finished) => Len(sent) = 1
    /\ Len(wire) <= 1

C11_Witness ==
    /\ pc = "returned" /\ rev = "v2"
    /\ call.svc = "PaymentService" /\ call.op = "Fetch"
    /\ exchange.transport = "noresp"
    /\ ret.err = TransportErr
    /\ Len(sent) = 1

\* the kind of an operation, by its name
OperationKind(op) ==
    CASE op \in {"List", "RefundList", "ChargebackList", "MandateList", "PaymentList"}
                                                               -> "list"
      [] op \in {"Fetch", "FetchRefund", "FetchChargeback", "MandateFetch"}
                                                               -> "fetch"
      [] op \in {"Create", "CreatePayment", "CreateRefund", "Mandate", "Payment"}
                                                               -> "create"
      [] op \in {"Update", "UpdateLine"}                       -> "update"
      [] op = "Cancel"                                         -> "cancel"

VerbOf(kind) ==
    CASE kind \in {"list", "fetch"} -> "GET"
      [] kind = "create"            -> "POST"
      [] kind = "update"            -> "PATCH"
      [] kind = "cancel"            -> "DELETE"

\* the collection of the resource an operation addresses
CollectionOf(svc) ==
    CASE svc = "MethodService"  -> "methods"
      [] svc = "OrderService"   -> "orders"
      [] svc \in {"PaymentService", "ChargebackService"} -> "payments"
      [] svc \in {"CustomerService", "MandateService", "SubscriptionService"}
                                -> "customers"

\* the sub-resource an operation addresses, "" when it addresses the
\* resource itself
SubresourceOf(svc, op) ==
    CASE svc = "MandateService"      -> "mandates"
      [] svc = "SubscriptionService" -> "subscriptions"
      [] svc = "ChargebackService"   -> "chargebacks"
      [] op \in {"CreateRefund", "FetchRefund", "RefundList"}   -> "refunds"
      [] op \in {"FetchChargeback", "ChargebackList"}           -> "chargebacks"
      [] op \in {"MandateList", "Mandate", "MandateFetch"}      -> "mandates"
      [] op \in {"PaymentList", "Payment", "CreatePayment"}     -> "payments"
      [] op = "UpdateLine"                                      -> "lines"
      [] OTHER                                                  -> ""

\* <api-version>/<collection>[/<id>[/<subresource>[/<subid>]]] after the
\* base URL
ExpectedURL(c) ==
    LET kind == OperationKind(c.op)
        coll == CollectionOf(c.svc)
        sub  == SubresourceOf(c.svc, c.op)
        one  == kind \in {"fetch", "update", "cancel"}
    IN  <<"https://api.mollie.nl", "/", IF rev = "v2" THEN "v2" ELSE "v1", "/", coll>>
        \o (IF sub = "" THEN (IF one THEN <<"/">> \o c.args.id ELSE << >>)
            ELSE <<"/">> \o c.args.id \o <<"/", sub>>
                 \o (IF one THEN <<"/">> \o c.args.subId ELSE << >>))

\* C12: the request of every operation carries the verb of its kind (GET for
\* list and fetch, POST for create, PATCH for update, DELETE for cancel) and
\* the path <collection>[/<id>[/<subresource>[/<subid>]]] built from the
\* arguments of the call.
C12_VerbAndPath ==
    pc = "sent" =>
        /\ wire[1].method = VerbOf(OperationKind(call.op))
        /\ wire[1].url = ExpectedURL(call)

C12_Witness ==
    /\ pc = "sent" /\ call.svc = "OrderService" /\ call.op = "UpdateLine"
    /\ call.args.id = <<"id_1">> /\ call.args.subId = <<"id_1">>
    /\ wire[1].method = "PATCH"
    /\ wire[1].url = <<"https://api.mollie.nl", "/", "v2", "/",
                       "orders", "/", "id_1", "/", "lines", "/", "id_1">>

\* C13: a list operation given nil params sends no query string; given a
\* ListParams of the current protocol it sends "from" exactly when From is
\* set and "limit" exactly when Limit is set, each once and with the value
\* supplied, be it the empty string or zero.
C13_ListQuery ==
    (pc = "sent" /\ OperationKind(call.op) = "list") =>
        LET p == call.args.params
            q == wire[1].query
        IN  /\ p = << >> => q = NoValues
            /\ (p # << >> /\ rev = "v2") =>
                  /\ <<"from">> \in DOMAIN q <=> p[1].From # << >>
                  /\ <<"limit">> \in DOMAIN q <=> p[1].Limit # << >>
                  /\ DOMAIN q \subseteq {<<"from">>, <<"limit">>}
                  /\ p[1].From # << >> => q[<<"from">>] = <<p[1].From[1]>>
                  /\ p[1].Limit # << >> =>
                        q[<<"limit">>] = << CASE p[1].Limit[1] = 0  -> <<"0">>
                                              [] p[1].Limit[1] = 1  -> <<"1">>
                                              [] p[1].Limit[1] = 10 -> <<"1", "0">> >>

C13_Witness ==
    /\ pc = "sent" /\ call.svc = "OrderService" /\ call.op = "List"
    /\ call.args.params = << [From |-> << >>, Limit |-> <<10>>] >>
    /\ wire[1].query = [k \in {<<"limit">>} |-> << <<"1", "0">> >>]

C14_BodyHoldsFieldsSet ==
    (pc = "sent" /\ call.svc = "OrderService" /\ call.op \in {"Update", "UpdateLine"}
        /\ call.args.body # << >>)
    => LET v == call.args.body[1]
           b == wire[1].body[1]
       IN  /\ b.t = "obj"
           /\ \A f \in Fields(v.T) :
                 /\ HasMember(b, f.json) <=> v[f.go] # Zero(f)
                 /\ HasMember(b, f.json) => b.m[f.json] = MarshalField(f, v[f.go])

\* an Update that returns a nil error has changed, in the entity the
\* service holds and in the entity returned, the fields its request names
\* and no other field
C14_UpdateFrame ==
    (pc = "sent" /\ pc' = "returned" /\ call.svc = "OrderService"
        /\ call.op = "Update" /\ ret'.err = NilErr)
    => LET i == Find(store, <<"orders">>, call.args.id)
           v == call.args.body[1]
       IN  /\ i # 0 /\ call.args.body # << >>
           /\ Len(store') = Len(store)
           /\ \A j \in DOMAIN store : j # i => store'[j] = store[j]
           /\ store'[i].orderNumber =
                 IF v.OrderNumber # << >> THEN v.OrderNumber ELSE store[i].orderNumber
           /\ store'[i].shipping =
                 IF v.ShippingAddress # << >> THEN v.ShippingAddress ELSE store[i].shipping
           /\ store'[i] = [store[i] EXCEPT !.orderNumber = store'[i].orderNumber,
                                           !.shipping = store'[i].shipping]
           /\ ret'.payload.ID = store[i].id
           /\ ret'.payload.OrderNumber = store'[i].orderNumber
           /\ ret'.payload.ShippingAddress = store'[i].shipping
           /\ ret'.payload.Amount = DecodeAmount(store[i].amount).v
           /\ ret'.payload.Status = store[i].status

\* C14: the body OrderService.Update and UpdateLine send holds only the
\* fields the caller set, and after an Update that succeeds the entity has
\* the values of those fields and, in every other field, the value it had
\* before the update.
C14_PartialUpdate == []C14_BodyHoldsFieldsSet /\ [][C14_UpdateFrame]_vars

C14_Witness ==
    /\ pc = "returned" /\ call.svc = "OrderService" /\ call.op = "Update"
    /\ call.args.id = <<"id_1">> /\ call.args.body # << >>
    /\ call.args.body[1].OrderNumber = <<"abcde12345">>
    /\ call.args.body[1].ShippingAddress = << >>
    /\ ret.err = NilErr
    /\ ret.payload.OrderNumber = <<"abcde12345">>
    /\ ret.payload.ShippingAddress = <<Riverview>>
    /\ ret.payload.Amount = Amount1050

\* the amount of a returned entity as currency and value string
ReturnedAmount(shape, payload) ==
    IF SuccessType(shape).amount = "Amount" THEN payload.Amount
    ELSE [Currency |-> << >>, Value |-> DecimalString(payload.Decimal)]

FetchedOf(c) ==
    {e \in created :
        /\ e.svc = c.svc
        /\ IF SubresourceOf(c.svc, c.op) = ""
           THEN e.parent = << >> /\ e.e.ID = c.args.id
           ELSE e.parent = c.args.id /\ e.e.ID = c.args.subId}

\* C17: a Fetch of the id that a Create of the same service returned with a
\* nil error returns a nil error and an entity with that id and with the
\* amount and the description of the entity the Create returned.
C17_CreateThenFetch ==
    (pc = "returned" /\ call.op = "Fetch") =>
        \A c \in FetchedOf(call) :
            /\ ret.err = NilErr
            /\ ret.payload.ID = c.e.ID
            /\ ret.payload.Amount = c.e.Amount
            /\ ret.payload.Decimal = c.e.Decimal
            /\ ret.payload.Description = c.e.Description

C17_Witness ==
    /\ pc = "returned" /\ call.svc = "PaymentService" /\ call.op = "Fetch"
    /\ FetchedOf(call) # {}
    /\ ret.err = NilErr /\ ret.payload.ID = <<"id_1">>
    /\ ret.payload.Amount = Amount1050 /\ ret.payload.Description = RedBucket
    /\ ret.payload.Status = "canceled"

\* C18: a List call with limit = L that returns a nil error returns at most
\* L entities.
C18_ListLimit ==
    (pc = "returned" /\ OperationKind(call.op) = "list" /\ ret.err = NilErr
        /\ call.args.params # << >> /\ call.args.params[1].Limit # << >>)
    => Len(ret.payload.Data) <= call.args.params[1].Limit[1]

C18_Witness ==
    /\ pc = "returned" /\ call.svc = "OrderService" /\ call.op = "List"
    /\ call.args.params = << [From |-> << >>, Limit |-> <<1>>] >>
    /\ Len(Members(store, <<"orders">>, 1)) = 2
    /\ ret.err = NilErr
    /\ ret.payload.Data = << <<"id_2">> >>

\* C19: a List call with from = the id of an entity the service holds in
\* the listed collection and with limit >= 1 returns a list that is not
\* empty and whose first entity has that id.
C19_ListCursor ==
    (pc = "returned" /\ OperationKind(call.op) = "list"
        /\ call.args.params # << >>
        /\ call.args.params[1].From # << >>
        /\ call.args.params[1].Limit # << >> /\ call.args.params[1].Limit[1] >= 1
        /\ Find(store, Route(sent[1].url).coll, call.args.params[1].From[1]) # 0)
    => /\ ret.payload.Data # << >>
       /\ ret.payload.Data[1] = call.args.params[1].From[1]

\* C20: whenever PaymentService.Cancel or OrderService.Cancel returns a nil
\* error, the entity returned is the entity of the id given, in the state
\* the cancellation left it in: status canceled, the fields it was created
\* with, and not the zero value.
C20_CancelReturnsCanceled ==
    (pc = "returned" /\ call.op = "Cancel" /\ ret.err = NilErr)
    => LET i == Find(store, Route(sent[1].url).coll, call.args.id) IN
       /\ ret.payload # ZeroPayload
       /\ ret.payload.ID = call.args.id
       /\ ret.payload.Status = "canceled"
       /\ i # 0 /\ store[i].status = "canceled"
       /\ ret.payload.Amount = DecodeAmount(store[i].amount).v

C20_Witness ==
    /\ pc = "returned" /\ call.svc = "OrderService" /\ call.op = "Cancel"
    /\ call.args.id = <<"id_1">>
    /\ exchange.code = 200
    /\ ret.err = NilErr
    /\ ret.payload.ID = <<"id_1">> /\ ret.payload.Status = "canceled"
    /\ ret.payload.Amount = Amount1050

\* C21: with several threads calling the same service at the same time, the
\* request of every call is the one its arguments and the configuration
\* given at construction determine, the result of every call is the one
\* the answer to its own request determines, and the stored builder of
\* every service is the one its constructor made.
C21_NoInterference ==
    /\ \A t \in 1..MaxThreads :
          /\ thr[t].pc \in {"sent", "returned"} =>
                thr[t].req =
                    <<OnWire(Request(Chain(thr[t].call, NewClient(token, rev))))>>
          /\ thr[t].pc = "returned" =>
                thr[t].ret = MethodResult(thr[t].call.check,
                                 Receive(thr[t].exchange, thr[t].call.shape,
                                         thr[t].call.errShape))
    /\ client = GollieNewClient(token, rev)

C21_Witness ==
    /\ thr[1].pc = "returned" /\ thr[2].pc = "sent"
    /\ thr[1].call.svc = "PaymentService" /\ thr[1].call.op = "Fetch"
    /\ thr[1].call.args.id = <<"id_1">>
    /\ thr[2].call.svc = "PaymentService" /\ thr[2].call.op = "Create"
    /\ thr[1].req[1].method = "GET" /\ thr[1].req[1].body = << >>
    /\ thr[1].req[1].url = <<"https://api.mollie.nl", "/", "v2", "/", "payments", "/", "id_1">>
    /\ thr[2].req[1].method = "POST" /\ thr[2].req[1].body # << >>
    /\ thr[2].req[1].url = <<"https://api.mollie.nl", "/", "v2", "/", "payments">>
    /\ thr[1].exchange.code = 200 /\ thr[1].ret.err = NilErr
    /\ thr[1].ret.payload.ID = <<"id_1">>

\* every service of the Client, and every service constructed beside it,
\* holds a builder that no other service holds
C22_OwnBuilder ==
    \A f, g \in DOMAIN client \cup DOMAIN services :
        f # g => Allocated(f) # Allocated(g)

\* a step of a call on one service leaves the stored builder of every other
\* service as it was
C22_Frame ==
    \A t \in 1..MaxThreads :
        thr'[t] # thr[t] =>
            \A g \in DOMAIN client :
                g \notin {thr[t].call.svc, thr'[t].call.svc} => client'[g] = client[g]

C23_NoCacheNoAliasing ==
    \A t \in 1..MaxThreads :
        (thr[t].pc = "returned" /\ thr[t].call.op = "Fetch") =>
            /\ Len(thr[t].req) = 1
            /\ thr[t].req[1].method = "GET"
            /\ thr[thr[t].tgt].ret =
                   MethodResult(thr[t].call.check,
                       Receive(thr[t].exchange, thr[t].call.shape, thr[t].call.errShape))

C23_Witness ==
    /\ thr[1].pc = "changed" /\ thr[2].pc = "returned"
    /\ thr[1].call.op = "Fetch" /\ thr[2].call.op = "Fetch"
    /\ thr[1].call.args.id = <<"id_1">> /\ thr[2].call.args.id = <<"id_1">>
    /\ thr[1].exchange.body.status.s = "open"
    /\ thr[2].exchange.body.status.s = "canceled"
    /\ thr[thr[1].tgt].ret.payload.Status = "changed"
    /\ thr[thr[2].tgt].ret.payload.Status = "canceled"
    /\ thr[thr[2].tgt].ret.payload.ID = <<"id_1">>
    /\ thr[thr[2].tgt].ret.err = NilErr

\* C24: whatever the token, the empty string included, construction yields
\* every service of the revision with a builder configured with the base
\* URL and "Bearer <token>", and sends nothing: no request exists before a
\* service method is called. The token goes out as it is in the request of
\* a later call, whose result carries what the service made of it.
C24_NoTokenValidation ==
    /\ DOMAIN client = ClientFields(rev)
    /\ DOMAIN services = Standalone(rev)
    /\ \A f \in DOMAIN client \cup DOMAIN services :
          /\ Service(f).rawURL = <<"https://api.mollie.nl", "/",
                                    IF rev = "v2" THEN "v2" ELSE "v1", "/">>
          /\ CanonicalAuthorization \in DOMAIN Service(f).header
          /\ Service(f).header[CanonicalAuthorization] = <<"Bearer", " ">> \o token
    /\ pc = "idle" => (wire = << >> /\ sent = << >> /\ ret = NoRet)
    /\ pc = "sent" =>
          /\ CanonicalAuthorization \in DOMAIN wire[1].header
          /\ wire[1].header[CanonicalAuthorization] = <<"Bearer", " ">> \o token

C24_Witness ==
    /\ token = << >>
    /\ pc = "returned" /\ rev = "v2"
    /\ call.svc = "PaymentService" /\ call.op = "Create"
    /\ sent[1].header[CanonicalAuthorization] = <<"Bearer", " ">>
    /\ exchange.transport = "ok" /\ exchange.code = 422
    /\ ret.err.kind = "mollie" /\ ret.err.e.Status = 422
    /\ client["PaymentService"].header[CanonicalAuthorization] = <<"Bearer", " ">>

\* C25: a List call that got a list in a 2xx answer has sent one request
\* and returns the entities of that answer, all of them when the answer
\* lists them in the member the list type reads and never an entity more,
\* whether or not the answer has a link to a next page.
C25_NoAutoPagination ==
    (pc = "returned" /\ OperationKind(call.op) = "list"
        /\ exchange.transport = "ok" /\ Is2xx(exchange.code) /\ exchange.code # 204
        /\ exchange.body.json)
    => /\ Len(sent) = 1
       /\ wire = << >>
       /\ ret.payload.Data \in {exchange.body.data, << >>}
       /\ SuccessType(call.shape).items \in {"data", exchange.body.embedded.name}
             => ret.payload.Data = exchange.body.data
       /\ ret.payload.Count = exchange.body.count

C25_Witness ==
    /\ pc = "returned" /\ rev = "v2"
    /\ call.svc = "PaymentService" /\ call.op = "List"
    /\ call.args.params = << [From |-> << >>, Limit |-> <<1>>] >>
    /\ exchange.code = 200 /\ exchange.body.next
    /\ exchange.body.data = << <<"id_1">>, <<"id_1">> >>
    /\ ret.err = NilErr
    /\ Len(ret.payload.Data) = 2
    /\ Len(sent) = 1

\* C26: when the exchange completed and the body of the answer could not be
\* decoded into the target of its status class (the success target for a
\* 2xx answer, the error target for any other), the method returns the
\* error of the decoder, also when the error target was filled with a
\* status that indicates an error. A body that is not JSON and a member of
\* the wrong JSON type are such bodies. (A 204 answer has no body and is not
\* decoded.)
C26_DecodeFailure ==
    (pc = "returned" /\ exchange.transport = "ok" /\ exchange.code # 204) =>
        /\ recv.err = DecodeErr => ret.err = DecodeErr
        /\ ~exchange.body.json => ret.err = DecodeErr
        /\ (/\ ~Is2xx(exchange.code) /\ call.errShape = "v2"
            /\ (exchange.body.title = "num" \/ exchange.body.status.t = "str"))
           => ret.err = DecodeErr
        /\ (/\ Is2xx(exchange.code) /\ exchange.body.json
            /\ ~SuccessType(call.shape).list
            /\ \/ SuccessType(call.shape).status /\ exchange.body.status.t = "num"
               \/ SuccessType(call.shape).amount = "decimal"
                     /\ exchange.body.amount.t = "obj")
           => ret.err = DecodeErr

C26_Witness ==
    /\ pc = "returned" /\ rev = "v2"
    /\ call.svc = "PaymentService" /\ call.op = "Create"
    /\ exchange.transport = "ok" /\ exchange.code = 422
    /\ exchange.body.json /\ exchange.body.title = "num"
    /\ exchange.body.status.n = 422
    /\ recv.failure.Status = 422
    /\ ret.err = DecodeErr

\* C27: OrderService.Fetch(id, nil) requests orders/<id> with no query, and
\* OrderService.Fetch(id, e) requests the same path with the one query
\* parameter embed, whose value as the server receives it is the string e.
C27_EmbedPassthrough ==
    (pc = "sent" /\ call.svc = "OrderService" /\ call.op = "Fetch") =>
        /\ wire[1].url = <<"https://api.mollie.nl", "/", "v2", "/", "orders", "/">>
                             \o call.args.id
        /\ call.args.embed = << >> => wire[1].query = NoValues
        /\ call.args.embed # << >> =>
              wire[1].query = [k \in {<<"embed">>} |-> <<call.args.embed[1]>>]

\* C28: in every revision, when the transport fails without a response, the
\* method returns: the zero payload, the nil response and the transport
\* error.
C28_TransportFailureReturns ==
    (Finished /\ exchange.transport = "noresp") =>
        /\ pc = "returned"
        /\ ret = Return(ZeroPayload, NoResponse, TransportErr)

\* C29: ids cannot redirect a request: the request OrderService.Fetch
\* builds for an id is never the request of the collection (List) and never
\* the request of the sub-resource operation RefundList, whatever the ids.
C29_IdsCannotRedirect ==
    (pc = "sent" /\ call.svc = "OrderService" /\ call.op = "Fetch"
        /\ call.args.embed = << >>) =>
        /\ sent[Len(sent)] # OnWire(Request(QueryStruct(
               Path(New(Service("OrderService")), <<"orders">>), << >>)))
        /\ \A id \in Ids :
               sent[Len(sent)] # OnWire(Request(QueryStruct(
                   Path(New(Service("OrderService")),
                        Sprintf1Sub("orders", id, "refunds")), << >>)))

====
